---------------------------- MODULE Spec2Model ----------------------------
(***************************************************************************)
(* A model of go-structflag: the struct-field binder (structVar), the      *)
(* field walker (flatStructFields), the file loader (LoadFile) and the     *)
(* merge protocol (LoadFileAndParseCommandLine), and the command list      *)
(* (CommandList.Execute).                                                  *)
(*                                                                         *)
(* Text is a sequence of one-character strings, so that the conversions    *)
(* the code performs on text (strconv.Parse*, time.ParseDuration,          *)
(* strings.ToLower, filepath.Ext, filepath.Clean) are computed character   *)
(* by character.                                                           *)
(***************************************************************************)
EXTENDS Integers, Sequences, FiniteSets, TLC

VARIABLES
    record,      \* the record behind structPtr: its declared fields (a tree)
    store,       \* the record's storage: field slot (path) -> value
    nameFunc,    \* which function the package variable NameFunc holds
    flagsP,      \* whether the registries NewFlags returns implement FlagsP
    onParseError,\* the package variable OnParseError
    flags,       \* the package variable flags: the primary registry, or NoFlags
    tempFlags,   \* LoadFileAndParseCommandLine's local tempFlags
    newFlagsCalls,\* how many times NewFlags has been called
    osArgs,      \* os.Args[1:], fixed when the process first reads it
    reads,       \* the file names ReadFile has been called with
    pc,          \* the position of the running call
    filename,    \* the running call's filename argument
    loadErr,     \* LoadFileAndParseCommandLine's local loadErr
    loaded,      \* the file the running call's LoadFile found
    steps,       \* the steps the running LoadFileAndParseCommandLine has taken
    result,      \* what the last call returned
    panicked,    \* the panic that ended the process, or NoPanic
    calls,       \* how many calls of the package's functions were made
    callee,      \* the exported function the last call was made to
    flat,        \* what the last flatStructFields call returned
    Commands,    \* the package variable Commands: the command list
    handled,     \* the calls of commandDetails.action the last Execute made
    invoked,     \* the calls of the user's actions the last Execute made
    executed     \* the last Execute call: its args and what it returned

vars == <<record, store, nameFunc, flagsP, onParseError, flags, tempFlags,
          newFlagsCalls, osArgs, reads, pc, filename, loadErr, loaded,
          steps,
          result, panicked, calls, callee, flat,
          Commands, handled, invoked, executed>>

\* the variables of the command list
cmdVars == <<Commands, handled, invoked, executed>>

\* the variables of the binder, the loader and the merge protocol
flagVars == <<record, store, nameFunc, flagsP, onParseError, flags, tempFlags,
              newFlagsCalls, osArgs, reads, pc, filename, loadErr, loaded,
              steps, result, panicked, calls, callee, flat>>

(***************************************************************************)
(* Text                                                                    *)
(***************************************************************************)

UpperChars == <<"A","B","C","D","E","F","G","H","I","J","K","L","M",
                "N","O","P","Q","R","S","T","U","V","W","X","Y","Z">>

LowerChars == <<"a","b","c","d","e","f","g","h","i","j","k","l","m",
                "n","o","p","q","r","s","t","u","v","w","x","y","z">>

DigitChars == <<"0","1","2","3","4","5","6","7","8","9",
                "a","b","c","d","e","f">>

\* strings.ToLower, one character
ToLowerChar(c) ==
    IF \E i \in 1..Len(UpperChars) : UpperChars[i] = c
    THEN LowerChars[CHOOSE i \in 1..Len(UpperChars) : UpperChars[i] = c]
    ELSE c

\* strings.ToLower
ToLower(s) == [i \in 1..Len(s) |-> ToLowerChar(s[i])]

\* s[from:] in Go's 0-based slicing, given 1-based from
Drop(s, n) == SubSeq(s, n + 1, Len(s))

HasPrefix(s, p) == Len(s) >= Len(p) /\ SubSeq(s, 1, Len(p)) = p

\* the value of digit character c in the given base, or -1
DigitVal(c, base) ==
    IF \E i \in 1..base : DigitChars[i] = ToLowerChar(c)
    THEN (CHOOSE i \in 1..base : DigitChars[i] = ToLowerChar(c)) - 1
    ELSE -1

AllDigits(s, base) == \A i \in 1..Len(s) : DigitVal(s[i], base) >= 0

RECURSIVE DigitsValue(_, _)
DigitsValue(s, base) ==
    IF s = <<>> THEN 0
    ELSE DigitsValue(SubSeq(s, 1, Len(s) - 1), base) * base
         + DigitVal(s[Len(s)], base)

(***************************************************************************)
(* The conversions of strconv and time the binder and the registry use.    *)
(* A conversion yields [ok, n]: whether the literal parses, and the value. *)
(***************************************************************************)

ParseFail == [ok |-> FALSE, n |-> 0]

ParseOk(n) == [ok |-> TRUE, n |-> n]

\* strconv.ParseBool: true is 1, false is 0
ParseBool(s) ==
    IF s \in { <<"1">>, <<"t">>, <<"T">>, <<"T","R","U","E">>,
               <<"t","r","u","e">>, <<"T","r","u","e">> }
    THEN ParseOk(1)
    ELSE IF s \in { <<"0">>, <<"f">>, <<"F">>, <<"F","A","L","S","E">>,
                    <<"f","a","l","s","e">>, <<"F","a","l","s","e">> }
    THEN ParseOk(0)
    ELSE ParseFail

\* strconv.ParseUint(s, 0, 64): base 0 reads the base from the prefix
ParseUint(s) ==
    LET low == ToLower(s)
        base == IF HasPrefix(low, <<"0","x">>) THEN 16
                ELSE IF HasPrefix(low, <<"0","b">>) THEN 2
                ELSE IF HasPrefix(low, <<"0","o">>) THEN 8
                ELSE IF HasPrefix(low, <<"0">>) /\ Len(s) > 1 THEN 8
                ELSE 10
        digits == IF base = 10 THEN s
                  ELSE IF HasPrefix(low, <<"0","x">>) \/ HasPrefix(low, <<"0","b">>)
                          \/ HasPrefix(low, <<"0","o">>)
                  THEN Drop(s, 2)
                  ELSE Drop(s, 1)
    IN  IF digits = <<>> \/ ~AllDigits(digits, base) THEN ParseFail
        ELSE ParseOk(DigitsValue(digits, base))

\* strconv.ParseInt(s, 0, 64): an optional sign, then ParseUint
ParseInt(s) ==
    IF s = <<>> THEN ParseFail
    ELSE LET neg == s[1] = "-"
             body == IF s[1] \in {"+", "-"} THEN Drop(s, 1) ELSE s
             u == ParseUint(body)
         IN  IF ~u.ok THEN ParseFail
             ELSE ParseOk(IF neg THEN 0 - u.n ELSE u.n)

\* strconv.ParseFloat(s, 64) on decimal literals with at most one digit
\* after the point; the value is held in tenths
ParseFloat(s) ==
    IF s = <<>> THEN ParseFail
    ELSE LET neg == s[1] = "-"
             body == IF s[1] \in {"+", "-"} THEN Drop(s, 1) ELSE s
             dots == {i \in 1..Len(body) : body[i] = "."}
             dot == IF dots = {} THEN Len(body) + 1
                    ELSE CHOOSE i \in dots : TRUE
             whole == SubSeq(body, 1, dot - 1)
             frac == Drop(body, dot)
             ok == /\ Cardinality(dots) <= 1
                   /\ Len(whole) + Len(frac) >= 1
                   /\ Len(frac) <= 1
                   /\ AllDigits(whole, 10)
                   /\ AllDigits(frac, 10)
             mag == DigitsValue(whole, 10) * 10
                    + (IF frac = <<>> THEN 0 ELSE DigitsValue(frac, 10))
         IN  IF ~ok THEN ParseFail
             ELSE ParseOk(IF neg THEN 0 - mag ELSE mag)

\* the units of time.ParseDuration the model's literals use, in nanoseconds
UnitNanos(u) ==
    CASE u = <<"n","s">> -> 1
      [] u = <<"u","s">> -> 1000
      [] u = <<"m","s">> -> 1000000
      [] u = <<"s">> -> 1000000000
      [] OTHER -> 0

\* time.ParseDuration on literals of one group: [-+]?digits unit, or "0";
\* the value is held in nanoseconds
ParseDuration(s) ==
    IF s = <<>> THEN ParseFail
    ELSE LET neg == s[1] = "-"
             body == IF s[1] \in {"+", "-"} THEN Drop(s, 1) ELSE s
             nd == IF \E i \in 1..Len(body) : DigitVal(body[i], 10) < 0
                   THEN (CHOOSE i \in 1..Len(body) :
                            /\ DigitVal(body[i], 10) < 0
                            /\ \A j \in 1..(i - 1) : DigitVal(body[j], 10) >= 0) - 1
                   ELSE Len(body)
             digits == SubSeq(body, 1, nd)
             unit == Drop(body, nd)
         IN  IF body = <<"0">> THEN ParseOk(0)
             ELSE IF body = <<>> \/ digits = <<>> \/ UnitNanos(unit) = 0
             THEN ParseFail
             ELSE ParseOk((IF neg THEN 0 - 1 ELSE 1)
                          * DigitsValue(digits, 10) * UnitNanos(unit))

(***************************************************************************)
(* Values, errors and panics                                               *)
(***************************************************************************)

\* A Go value of a field: nil (a nil pointer), a number (bool as 0/1, the
\* integers, float64 in tenths, time.Duration in nanoseconds) or text.
NilV == [nil |-> TRUE, n |-> 0, s |-> <<>>]

NumV(n) == [nil |-> FALSE, n |-> n, s |-> <<>>]

StrV(s) == [nil |-> FALSE, n |-> 0, s |-> s]

\* the kinds structVar registers through a typed registration
PrimitiveKinds ==
    {"bool", "int", "int64", "uint", "uint64", "float64", "string", "duration"}

\* the zero value of a kind ("var value T")
ZeroVal(kind) == IF kind = "string" THEN StrV(<<>>) ELSE NumV(0)

NoErr == [kind |-> "nil", detail |-> <<>>]

Err(kind, detail) == [kind |-> kind, detail |-> detail]

NoPanic == [kind |-> "none", field |-> <<>>, slot |-> <<>>]

\* a panic: its kind, the name its message carries (the field's name in
\* structVar's own error, the flag's name in the registry's, none in the
\* panics of reflect and of a failed parse), and the slot it was raised at
Panic(kind, field, slot) == [kind |-> kind, field |-> field, slot |-> slot]

(***************************************************************************)
(* The record and the field walker                                         *)
(*                                                                         *)
(* A field (reflect.StructField) is                                        *)
(*   [Name, Anonymous, Kind, Ptr, flag, hasShort, short, usage,            *)
(*    hasDefault, default, sub]                                            *)
(* where Kind is the kind of the field's type or, for a pointer type       *)
(* (Ptr), of the type it points to; flag, short, usage and default are     *)
(* the values of the struct tags NameTag, ShorthandTag, UsageTag and       *)
(* DefaultTag; sub holds the fields of a struct type.  A field's storage   *)
(* is store[slot], its slot being the path of field indexes from the       *)
(* record.                                                                 *)
(***************************************************************************)

RECURSIVE flatStructFields(_, _, _)
RECURSIVE FlatFrom(_, _, _, _)

\* flatStructFields(v) for the value v of type `node` stored at `path`:
\* [panic, fields], fields a sequence of structFieldAndValue [f, slot]
flatStructFields(node, path, st) ==
    IF node.Ptr /\ st[path].nil
    THEN [panic |-> Panic("invalid value", <<>>, path), fields |-> <<>>]
    ELSE IF node.Kind # "struct"
    THEN [panic |-> Panic("not a struct", <<>>, path), fields |-> <<>>]
    ELSE FlatFrom(node, path, st, 1)

\* a variant loop that also emits the embedded field itself, before the
\* fields it embeds
FlatFromKeepingEmbedded(node, path, st, i) ==
    IF i > Len(node.sub) THEN [panic |-> NoPanic, fields |-> <<>>]
    ELSE LET ft == node.sub[i]
             fv == path \o <<i>>
             own == << [f |-> ft, slot |-> fv] >>
             head == IF ft.Anonymous
                     THEN [flatStructFields(ft, fv, st) EXCEPT !.fields = own \o @]
                     ELSE [panic |-> NoPanic, fields |-> own]
         IN  IF head.panic # NoPanic THEN [panic |-> head.panic, fields |-> <<>>]
             ELSE LET rest == FlatFrom(node, path, st, i + 1)
                  IN  IF rest.panic # NoPanic
                      THEN [panic |-> rest.panic, fields |-> <<>>]
                      ELSE [panic |-> NoPanic,
                            fields |-> head.fields \o rest.fields]

\* the loop "for i := 0; i < numField; i++" from index i on
FlatFrom(node, path, st, i) ==
    IF i > Len(node.sub) THEN [panic |-> NoPanic, fields |-> <<>>]
    ELSE LET ft == node.sub[i]
             fv == path \o <<i>>
             head == IF ft.Anonymous
                     THEN flatStructFields(ft, fv, st)
                     ELSE [panic |-> NoPanic,
                           fields |-> << [f |-> ft, slot |-> fv] >>]
         IN  IF head.panic # NoPanic THEN [panic |-> head.panic, fields |-> <<>>]
             ELSE LET rest == FlatFrom(node, path, st, i + 1)
                  IN  IF rest.panic # NoPanic
                      THEN [panic |-> rest.panic, fields |-> <<>>]
                      ELSE [panic |-> NoPanic,
                            fields |-> head.fields \o rest.fields]

(***************************************************************************)
(* The option registry (Flags, FlagsP), as the registries NewFlags returns *)
(* behave: a typed registration stores the default into the bound storage  *)
(* and a second registration of a name panics.                             *)
(*                                                                         *)
(* A registry is [id, p, opts, args]: id numbers the NewFlags call that    *)
(* made it (0: the nil Flags), p tells whether it implements FlagsP, opts  *)
(* is the sequence of registered options and args the residual arguments   *)
(* of its last Parse.  An option is                                        *)
(*   [name, hasShort, short, def, usage, slot, kind, method].              *)
(***************************************************************************)

NoFlags == [id |-> 0, p |-> FALSE, opts |-> <<>>, args |-> <<>>]

\* a variant NewFlags that hands out the primary registry once there is
\* one
NewFlagsShared(id, p) ==
    IF flags # NoFlags THEN flags
    ELSE [id |-> id, p |-> p, opts |-> <<>>, args |-> <<>>]

\* the registry the id-th call of NewFlags returns
NewFlags(id, p) == [id |-> id, p |-> p, opts |-> <<>>, args |-> <<>>]

\* the name of the registration method structVar calls for a kind
MethodName(kind, hasShorthand) ==
    LET base == CASE kind = "custom" -> "Var"
                  [] kind = "duration" -> "DurationVar"
                  [] kind = "bool" -> "BoolVar"
                  [] kind = "float64" -> "Float64Var"
                  [] kind = "int64" -> "Int64Var"
                  [] kind = "int" -> "IntVar"
                  [] kind = "string" -> "StringVar"
                  [] kind = "uint64" -> "Uint64Var"
                  [] kind = "uint" -> "UintVar"
    IN  IF hasShorthand THEN base \o "P" ELSE base

\* a variant registry that keeps the first option of a name and takes a
\* second registration of the name without a word
RegisterKeepingFirst(acc, opt) ==
    IF \E i \in 1..Len(acc.reg.opts) : acc.reg.opts[i].name = opt.name
    THEN acc
    ELSE [acc EXCEPT
            !.reg.opts = Append(@, opt),
            !.store = IF opt.kind = "custom" THEN @
                      ELSE [@ EXCEPT ![opt.slot] = opt.def]]

\* flags.XxxVar(p, name, value, usage) / flagsp.XxxVarP(p, name, shorthand,
\* value, usage) / Var / VarP on the binder's state acc = [store, reg, mode,
\* panic]: the option is added and, for a typed registration, *p = value
Register(acc, opt) ==
    IF \E i \in 1..Len(acc.reg.opts) : acc.reg.opts[i].name = opt.name
    THEN [acc EXCEPT !.panic = Panic("flag redefined", opt.name, opt.slot)]
    ELSE [acc EXCEPT
            !.reg.opts = Append(@, opt),
            !.store = IF opt.kind = "custom" THEN @
                      ELSE [@ EXCEPT ![opt.slot] = opt.def]]

(***************************************************************************)
(* The binder                                                              *)
(***************************************************************************)

\* the package variable NameFunc: the identity by default, or a function
\* the user has set
NameFunc(name) ==
    CASE nameFunc = "identity" -> name
      [] nameFunc = "prefix" -> <<"x">> \o name
      [] nameFunc = "kebab" ->
            [i \in 1..Len(name) |-> IF name[i] = "_" THEN "-" ELSE name[i]]

\* structVar's test "if name == "-" { continue }" on field.Tag.Get(NameTag)
IsSkipped(f) == f.flag = <<"-">>

\* a variant naming that applies NameFunc a second time
OptionNameTwice(f) == NameFunc(NameFunc(IF f.flag = <<>> THEN f.Name ELSE f.flag))

\* structVar's flag name of a field that is not skipped
OptionName(f) == NameFunc(IF f.flag = <<>> THEN f.Name ELSE f.flag)

\* the parse of a default tag's literal that structVar uses for a kind
ParseDefault(kind, s) ==
    CASE kind = "duration" -> ParseDuration(s)
      [] kind = "bool" -> ParseBool(s)
      [] kind = "float64" -> ParseFloat(s)
      [] kind \in {"int64", "int"} -> ParseInt(s)
      [] kind \in {"uint64", "uint"} -> ParseUint(s)
      [] kind = "string" -> ParseOk(0)

\* "var value T; if fieldValuesAsDefault { value = field value } else if
\* hasDefault { value, err = parse(defaultStr) }": [ok, v]
DefaultValue(kind, fieldValuesAsDefault, hasDefault, defaultStr, cur) ==
    IF fieldValuesAsDefault THEN [ok |-> TRUE, v |-> cur]
    ELSE IF hasDefault
    THEN LET r == ParseDefault(kind, defaultStr)
         IN  [ok |-> r.ok,
              v |-> IF kind = "string" THEN StrV(defaultStr) ELSE NumV(r.n)]
    ELSE [ok |-> TRUE, v |-> ZeroVal(kind)]

\* the mode the fields after a pointer field are bound in: structVar
\* assigns "fieldValuesAsDefault = !hasDefault" to its own parameter
ModeAfterPointer(fieldValuesAsDefault, hasDefault) == ~hasDefault

\* a variant that takes the short tag whatever the registry is
HasShorthandByTag(f, reg) == f.hasShort

\* "shorthand, hasShorthand := field.Tag.Lookup(ShorthandTag);
\* hasShorthand = hasShorthand && (flagsp != nil)", flagsp being the
\* registry when it implements FlagsP
HasShorthand(f, reg) == f.hasShort /\ reg.p

\* one iteration of structVar's loop, for the field d = [f, slot].  A
\* field whose type implements the value interface is registered by the
\* address of the field; when that type is a pointer type the address is
\* a pointer to a pointer, which has no methods, and the type assertion
\* "field.Value.Addr().Interface().(pflag.Value)" panics
BindField(acc, d) ==
    LET f == d.f
        hasShorthand == HasShorthand(f, acc.reg)
        opt(kind, def) ==
            [name |-> OptionName(f), hasShort |-> hasShorthand,
             short |-> IF hasShorthand THEN f.short ELSE <<>>,
             def |-> def, usage |-> f.usage, slot |-> d.slot,
             kind |-> kind, method |-> MethodName(kind, hasShorthand)]
    IN  IF IsSkipped(f) THEN acc
        ELSE IF f.Kind = "custom"
        THEN IF f.Ptr
             THEN [acc EXCEPT
                     !.panic = Panic("interface conversion", <<>>, d.slot)]
             ELSE Register(acc, opt("custom", acc.store[d.slot]))
        ELSE IF f.Ptr /\ acc.store[d.slot].nil
        THEN [acc EXCEPT !.panic = Panic("pointer must not be nil", f.Name, d.slot)]
        ELSE LET mode == IF f.Ptr THEN ModeAfterPointer(acc.mode, f.hasDefault)
                         ELSE acc.mode
                 acc1 == [acc EXCEPT !.mode = mode]
             IN  IF f.Kind \notin PrimitiveKinds THEN acc1
                 ELSE LET v == DefaultValue(f.Kind, mode, f.hasDefault,
                                            f.default, acc.store[d.slot])
                      IN  IF ~v.ok
                          THEN [acc1 EXCEPT
                                  !.panic = Panic("bad default", <<>>, d.slot)]
                          ELSE Register(acc1, opt(f.Kind, v.v))

RECURSIVE BindFrom(_, _, _)
\* structVar's loop "for _, field := range fields" from index i on; a panic
\* ends it
BindFrom(acc, fields, i) ==
    IF i > Len(fields) \/ acc.panic # NoPanic THEN acc
    ELSE BindFrom(BindField(acc, fields[i]), fields, i + 1)

\* structVar(structPtr, flags, fieldValuesAsDefault) on the record `rec`
\* with storage st and the registry reg: [store, reg, mode, panic]
structVar(rec, st, reg, fieldValuesAsDefault) ==
    LET acc == [store |-> st, reg |-> reg, mode |-> fieldValuesAsDefault,
                panic |-> NoPanic]
        fl == flatStructFields(rec, <<>>, st)
    IN  IF fl.panic # NoPanic THEN [acc EXCEPT !.panic = fl.panic]
        ELSE BindFrom(acc, fl.fields, 1)

(***************************************************************************)
(* Parsing a command line against a registry (Flags.Parse).  An argument   *)
(* token is [t, name, val]: t = "long" for --name=val, "short" for         *)
(* -name=val, "arg" for a positional argument whose text is name.          *)
(***************************************************************************)

\* Value.Set(val) of an option of a kind: [ok, v]
SetValue(kind, s) ==
    IF kind \in {"custom", "string"} THEN [ok |-> TRUE, v |-> StrV(s)]
    ELSE LET r == ParseDefault(kind, s)
         IN  [ok |-> r.ok, v |-> NumV(r.n)]

\* the index in opts of the option a flag token names, or 0
LookupOpt(opts, tok) ==
    LET hits == {i \in 1..Len(opts) :
                    IF tok.t = "long" THEN opts[i].name = tok.name
                    ELSE opts[i].hasShort /\ opts[i].short = tok.name}
    IN  IF hits = {} THEN 0 ELSE CHOOSE i \in hits : TRUE

RECURSIVE ParseFrom(_, _, _)
\* the registry's Parse from token i on, on acc = [store, reg, err]: the
\* first error ends it, the values set before it stay set
ParseFrom(acc, args, i) ==
    IF i > Len(args) \/ acc.err # NoErr THEN acc
    ELSE LET tok == args[i]
             k == LookupOpt(acc.reg.opts, tok)
             set == SetValue(acc.reg.opts[k].kind, tok.val)
             next ==
                IF tok.t = "arg"
                THEN [acc EXCEPT !.reg.args = Append(@, tok.name)]
                ELSE IF k = 0
                THEN [acc EXCEPT !.err = Err("unknown flag", tok.name)]
                ELSE IF ~set.ok
                THEN [acc EXCEPT !.err = Err("invalid argument", tok.name)]
                ELSE [acc EXCEPT !.store[acc.reg.opts[k].slot] = set.v]
         IN  ParseFrom(next, args, i + 1)

\* flags.Parse(arguments): [store, reg, err]
FlagsParse(reg, st, args) ==
    ParseFrom([store |-> st, reg |-> [reg EXCEPT !.args = <<>>], err |-> NoErr],
              args, 1)

\* a []string result: nil, or a list
NilArgs == [nil |-> TRUE, list |-> <<>>]

ArgsOf(list) == [nil |-> FALSE, list |-> list]

\* parse(args, flags) after "if len(args) == 0 { args = os.Args[1:] }":
\* [store, reg, args, err]
parse(reg, st, args) ==
    LET r == FlagsParse(reg, st, args)
    IN  IF r.err # NoErr
        THEN [store |-> r.store, reg |-> r.reg, args |-> NilArgs, err |-> r.err]
        ELSE [store |-> r.store, reg |-> r.reg, args |-> ArgsOf(r.reg.args),
              err |-> NoErr]

(***************************************************************************)
(* Loading a file                                                          *)
(***************************************************************************)

RECURSIVE Split(_, _)
\* strings.Split(s, sep) for a one-character sep
Split(s, sep) ==
    IF \A i \in 1..Len(s) : s[i] # sep THEN <<s>>
    ELSE LET k == CHOOSE i \in 1..Len(s) :
                     s[i] = sep /\ \A j \in 1..(i - 1) : s[j] # sep
         IN  <<SubSeq(s, 1, k - 1)>> \o Split(Drop(s, k), sep)

RECURSIVE CleanFrom(_, _, _, _)
\* filepath.Clean's pass over the path elements from index i on; out is
\* the sequence of elements kept so far
CleanFrom(elems, rooted, out, i) ==
    IF i > Len(elems) THEN out
    ELSE LET e == elems[i]
         IN  IF e = <<>> \/ e = <<".">>
             THEN CleanFrom(elems, rooted, out, i + 1)
             ELSE IF e = <<".", ".">>
             THEN IF out # <<>> /\ out[Len(out)] # <<".", ".">>
                  THEN CleanFrom(elems, rooted, SubSeq(out, 1, Len(out) - 1), i + 1)
                  ELSE IF rooted THEN CleanFrom(elems, rooted, out, i + 1)
                  ELSE CleanFrom(elems, rooted, Append(out, e), i + 1)
             ELSE CleanFrom(elems, rooted, Append(out, e), i + 1)

RECURSIVE Join(_, _)
\* strings.Join(elems, sep)
Join(elems, sep) ==
    IF elems = <<>> THEN <<>>
    ELSE IF Len(elems) = 1 THEN elems[1]
    ELSE elems[1] \o sep \o Join(Tail(elems), sep)

\* filepath.Clean
Clean(path) ==
    IF path = <<>> THEN <<".">>
    ELSE LET rooted == path[1] = "/"
             out == Join(CleanFrom(Split(path, "/"), rooted, <<>>, 1), <<"/">>)
             full == IF rooted THEN <<"/">> \o out ELSE out
         IN  IF full = <<>> THEN <<".">> ELSE full

\* filepath.Ext: the suffix from the last dot of the last path element
Ext(path) ==
    LET dots == {i \in 1..Len(path) :
                    path[i] = "." /\ \A j \in i..Len(path) : path[j] # "/"}
    IN  IF dots = {} THEN <<>>
        ELSE Drop(path, (CHOOSE i \in dots : \A j \in dots : j <= i) - 1)

\* json.Unmarshal / xml.Unmarshal(data, structPtr): the fields the data
\* holds are stored; a file is [exists, valid, content], content mapping a
\* slot to [has, v]
Unmarshal(file, st) ==
    [p \in DOMAIN st |->
        IF p \in DOMAIN file.content /\ file.content[p].has
        THEN file.content[p].v ELSE st[p]]

\* LoadJSON / LoadXML(filename, structPtr) of codec `by`: [err, store, reads]
LoadCodec(by, fname, file, st, rd) ==
    LET f == Clean(fname)
        rd1 == Append(rd, [name |-> f, by |-> by])
    IN  IF ~file.exists
        THEN [err |-> Err("file does not exist", f), store |-> st, reads |-> rd1]
        ELSE [err |-> IF file.valid THEN NoErr ELSE Err("decode", ToLower(by)),
              store |-> Unmarshal(file, st), reads |-> rd1]

\* a variant extension that keeps the case of the file name
LoadExtCaseSensitive(fname) == Ext(Clean(fname))

\* the extension LoadFile switches on
LoadExt(fname) == ToLower(Ext(Clean(fname)))

\* LoadFile(filename, structPtr): [err, store, reads]
LoadFile(fname, file, st, rd) ==
    LET f == Clean(fname)
        ext == LoadExt(fname)
    IN  CASE ext = <<".", "j", "s", "o", "n">> ->
                LoadCodec(<<"j", "s", "o", "n">>, f, file, st, rd)
          [] ext = <<".", "x", "m", "l">> ->
                LoadCodec(<<"x", "m", "l">>, f, file, st, rd)
          [] OTHER ->
                [err |-> Err("file extension not supported", ext),
                 store |-> st, reads |-> rd]

(***************************************************************************)
(* The inputs: field declarations, records, storage, files, command lines  *)
(***************************************************************************)

\* bounds of the model
MaxArgs == 2

MaxCalls == 1

MaxNodes == 4

MaxSeq == 3

Kinds == PrimitiveKinds \cup {"custom", "other"}

\* a default tag's literal that parses for the kind
GoodDefault(kind) ==
    CASE kind = "bool" -> <<"T">>
      [] kind = "int" -> <<"0", "x", "1", "0">>
      [] kind = "int64" -> <<"-", "1">>
      [] kind = "uint" -> <<"0", "1", "0">>
      [] kind = "uint64" -> <<"7">>
      [] kind = "float64" -> <<"1", ".", "5">>
      [] kind = "duration" -> <<"1", "s">>
      [] OTHER -> <<"X", "X", "X">>

\* a literal that does not parse for the kind (every literal is a string)
BadLiteral(kind) ==
    CASE kind = "bool" -> <<"y", "e", "s">>
      [] kind \in {"int", "int64"} -> <<"1", "a">>
      [] kind \in {"uint", "uint64"} -> <<"-", "1">>
      [] kind = "float64" -> <<".">>
      [] kind = "duration" -> <<"5">>

HasBadLiteral(kind) == kind \in PrimitiveKinds \ {"string"}

\* a value that is not the kind's zero value
NonZero(kind) ==
    IF kind = "string" THEN StrV(<<"r", "t">>)
    ELSE IF kind = "bool" THEN NumV(1)
    ELSE NumV(3)

\* the values a file can hold for a field of the kind
FileVals(kind) ==
    IF kind = "string" THEN {StrV(<<"f", "i", "l", "e">>)}
    ELSE IF kind = "bool" THEN {NumV(0), NumV(1)}
    ELSE {NumV(2)}

\* the literals a command line can give a flag of the kind
CmdLiterals(kind) ==
    CASE kind = "bool" -> {<<"t", "r", "u", "e">>, <<"F">>}
      [] kind = "duration" -> {<<"4", "m", "s">>}
      [] kind = "float64" -> {<<"4", ".">>}
      [] kind \in {"string", "custom"} -> {<<"c", "m", "d">>}
      [] OTHER -> {<<"0", "4">>}

\* a field declaration
Field(name, kind, ptr, flag, hasShort, hasDefault, default) ==
    [Name |-> name, Anonymous |-> FALSE, Kind |-> kind, Ptr |-> ptr,
     flag |-> flag, hasShort |-> hasShort,
     short |-> IF hasShort THEN <<"s">> ELSE <<>>,
     usage |-> <<"u">>, hasDefault |-> hasDefault, default |-> default,
     sub |-> <<>>]

\* an embedded (anonymous) field of a struct type, of a pointer to one, or
\* of a type of another kind
Embedded(kind, ptr, flag, sub) ==
    [Name |-> <<"E">>, Anonymous |-> TRUE, Kind |-> kind, Ptr |-> ptr,
     flag |-> flag, hasShort |-> FALSE, short |-> <<>>, usage |-> <<>>,
     hasDefault |-> FALSE, default |-> <<>>, sub |-> sub]

\* the record behind structPtr: a non-nil pointer to a struct of the fields
Record(fields) ==
    [Name |-> <<>>, Anonymous |-> FALSE, Kind |-> "struct", Ptr |-> TRUE,
     flag |-> <<>>, hasShort |-> FALSE, short |-> <<>>, usage |-> <<>>,
     hasDefault |-> FALSE, default |-> <<>>, sub |-> fields]

ProbeName == <<"P", "_", "a">>

\* the default tags a field of the kind is declared with: none, a literal
\* that parses, a literal that does not
DefaultTags(kind) ==
    { [has |-> FALSE, lit |-> <<>>], [has |-> TRUE, lit |-> GoodDefault(kind)] }
    \cup (IF HasBadLiteral(kind)
          THEN {[has |-> TRUE, lit |-> BadLiteral(kind)]} ELSE {})

PtrChoices(kind) == IF kind = "custom" THEN {FALSE} ELSE BOOLEAN

\* fields of every kind, pointer or not, with every default tag
TypeProbes ==
    UNION { { Field(ProbeName, k, p, <<>>, FALSE, d.has, d.lit) :
                p \in PtrChoices(k), d \in DefaultTags(k) } : k \in Kinds }

\* fields of every kind with the skip tag, whatever else they carry
SkipProbes ==
    UNION { { Field(ProbeName, k, p, <<"-">>, s, d.has, d.lit) :
                p \in PtrChoices(k), s \in BOOLEAN, d \in DefaultTags(k) } :
            k \in Kinds }

\* fields of every kind with a name tag or a short tag
TagProbes ==
    { Field(ProbeName, k, FALSE, n, s, FALSE, <<>>) :
        k \in Kinds, n \in {<<>>, <<"n">>, <<"_">>}, s \in BOOLEAN }

\* fields of a pointer type that is a self-parsing value, with every tag
CustomPointerProbes ==
    { Field(ProbeName, "custom", TRUE, n, s, d.has, d.lit) :
        n \in {<<>>, <<"-">>}, s \in BOOLEAN, d \in DefaultTags("custom") }

\* the fields declared before the probe
LeadFields ==
    { Field(<<"L">>, "int", TRUE, <<>>, FALSE, FALSE, <<>>),
      Field(<<"L">>, "int", TRUE, <<>>, FALSE, TRUE, <<"9">>),
      Field(<<"L">>, "string", FALSE, <<>>, FALSE, TRUE, <<"d">>) }

\* embedded fields: a struct or a pointer to one holding a lead field,
\* with or without the skip tag, and an embedded field that is no struct
EmbeddedFields ==
    { Embedded("struct", p, n, <<l>>) :
        p \in BOOLEAN, n \in {<<>>, <<"-">>}, l \in LeadFields }
    \cup { Embedded("duration", FALSE, n, <<>>) : n \in {<<>>, <<"-">>} }

\* the records of the merge protocol's specification
MergeRecords ==
    { Record(<<f>>) : f \in TypeProbes }
    \cup { Record(<<l, f>>) :
             l \in LeadFields, f \in {g \in TypeProbes : g.Kind = "int"} }

\* records of three fields whose second field is named, by its tag or by
\* its own name, like the first one
SameNameRecords ==
    { Record(<< Field(<<"A">>, "int", FALSE, <<>>, FALSE, FALSE, <<>>),
                Field(n, k, FALSE, <<"A">>, FALSE, FALSE, <<>>),
                Field(<<"C">>, "int", FALSE, <<>>, FALSE, FALSE, <<>>) >>) :
        n \in {<<"A">>, <<"B">>}, k \in {"int", "custom", "other"} }

\* the records of the binder's specification
BindRecords ==
    { Record(<<f>>) : f \in TypeProbes \cup SkipProbes \cup TagProbes
                            \cup CustomPointerProbes }
    \cup { Record(<<l, f>>) : l \in LeadFields, f \in TypeProbes }
    \cup { Record(<<e, f>>) : e \in EmbeddedFields,
                              f \in {g \in TypeProbes : g.Kind \in {"int", "custom"}} }
    \cup SameNameRecords

\* a field of a type the binder does not know
Plain == Field(<<"F">>, "other", FALSE, <<>>, FALSE, FALSE, <<>>)

\* a field of a struct type that is not embedded
Nested(sub) == [Plain EXCEPT !.Kind = "struct", !.sub = sub]

\* the shape of a field declaration is <<k, shapes of its fields>>, k
\* telling a plain field ("F"), a nested struct ("S"), an embedded struct
\* ("E"), an embedded pointer to a struct ("P") or an embedded field of a
\* type that is no struct ("O")
RECURSIVE ShapeSize(_)
RECURSIVE ShapeSizeFrom(_, _)
\* the number of fields of a shape, itself included
ShapeSize(t) == 1 + ShapeSizeFrom(t[2], 1)

ShapeSizeFrom(sub, i) ==
    IF i > Len(sub) THEN 0 ELSE ShapeSize(sub[i]) + ShapeSizeFrom(sub, i + 1)

RECURSIVE Trees(_)
RECURSIVE Forests(_)
\* the shapes of at most n fields
Trees(n) ==
    { <<"F", <<>>>>, <<"O", <<>>>> }
    \cup { <<k, sub>> : k \in {"S", "E", "P"}, sub \in Forests(n - 1) }

\* the sequences of shapes of at most n fields in all
Forests(n) ==
    IF n = 0 THEN { <<>> }
    ELSE { <<>> }
         \cup UNION { UNION { { <<t>> \o rest :
                                  t \in {u \in trees : ShapeSize(u) = m},
                                  rest \in Forests(n - m) } : m \in 1..n } :
                      trees \in { Trees(n) } }

RECURSIVE Shaped(_)
\* the field declarations of a sequence of shapes
Shaped(shapes) ==
    [i \in 1..Len(shapes) |->
        LET k == shapes[i][1]
            sub == Shaped(shapes[i][2])
        IN  CASE k = "F" -> Plain
              [] k = "S" -> Nested(sub)
              [] k = "E" -> Embedded("struct", FALSE, <<>>, sub)
              [] k = "P" -> Embedded("struct", TRUE, <<>>, sub)
              [] k = "O" -> Embedded("other", FALSE, <<>>, <<>>)]

\* the digit a field's name ends with
IndexChars == <<"1", "2", "3", "4", "5", "6", "7", "8", "9">>

RECURSIVE Numbered(_)
\* the fields named apart by their index in the struct
Numbered(fields) ==
    [i \in 1..Len(fields) |->
        [fields[i] EXCEPT !.Name = Append(@, IndexChars[i]),
                          !.sub = Numbered(@)]]

\* the record of the walker's specification that has the shapes
FlatRecord(shapes) == Record(Numbered(Shaped(shapes)))

RECURSIVE Paths(_, _)
RECURSIVE PathsFrom(_, _, _)
\* the slots of a value of type `node` stored at `path`, itself first
Paths(node, path) == <<path>> \o PathsFrom(node, path, 1)

PathsFrom(node, path, i) ==
    IF i > Len(node.sub) THEN <<>>
    ELSE Paths(node.sub[i], path \o <<i>>) \o PathsFrom(node, path, i + 1)

RECURSIVE NodeAt(_, _)
\* the declaration of the field stored at `path` of a value of type `node`
NodeAt(node, path) ==
    IF path = <<>> THEN node ELSE NodeAt(node.sub[path[1]], Tail(path))

\* the values a field can hold when the program starts
RuntimeVals(rec, path) ==
    LET f == NodeAt(rec, path)
        nil == IF f.Ptr /\ path # <<>> THEN {NilV} ELSE {}
    IN  IF f.Kind \in PrimitiveKinds
        THEN {ZeroVal(f.Kind), NonZero(f.Kind)} \cup nil
        ELSE IF f.Kind = "custom" THEN {StrV(<<"c">>)} \cup nil
        ELSE {NumV(0)} \cup nil

RECURSIVE StoresFrom(_, _, _)
\* the storages of a record: one value for every slot
StoresFrom(rec, paths, i) ==
    IF i > Len(paths) THEN { <<>> }
    ELSE { (paths[i] :> v) @@ st :
             v \in RuntimeVals(rec, paths[i]),
             st \in StoresFrom(rec, paths, i + 1) }

Stores(rec) == StoresFrom(rec, Paths(rec, <<>>), 1)

\* the fields of the record a file can hold a value for
FileSlots(rec, st) ==
    LET fl == flatStructFields(rec, <<>>, st).fields
    IN  {fl[i].slot : i \in {j \in 1..Len(fl) : fl[j].f.Kind \in PrimitiveKinds}}

AbsentCell == [has |-> FALSE, v |-> NumV(0)]

\* what a file holds for the field at a slot: nothing, or a value
FileCells(rec, p) ==
    {AbsentCell} \cup {[has |-> TRUE, v |-> x] : x \in FileVals(NodeAt(rec, p).Kind)}

RECURSIVE ContentsFrom(_, _)
\* the contents of a file: a cell for every slot of the set
ContentsFrom(rec, slots) ==
    IF slots = {} THEN { <<>> }
    ELSE LET p == CHOOSE q \in slots : TRUE
         IN  { (p :> c) @@ rest :
                 c \in FileCells(rec, p), rest \in ContentsFrom(rec, slots \ {p}) }

NoFile == [exists |-> FALSE, valid |-> FALSE, content |-> <<>>]

\* the files LoadFile can find: none, a file that decodes, and a file whose
\* decoding fails after storing some of its fields
Files(rec, st) ==
    {NoFile}
    \cup { [exists |-> TRUE, valid |-> v, content |-> c] :
             v \in BOOLEAN, c \in ContentsFrom(rec, FileSlots(rec, st)) }

\* the files of the binder's specification: none, or one holding a value
\* for every field
FullFiles(rec, st) ==
    {NoFile}
    \cup { f \in Files(rec, st) :
             f.valid /\ \A p \in DOMAIN f.content : f.content[p].has }

\* the files that hold null for every pointer field (json.Unmarshal sets
\* the pointer to nil) and nothing for the other fields
NullFiles(rec, st) ==
    LET slots == FileSlots(rec, st)
    IN  IF \A p \in slots : ~NodeAt(rec, p).Ptr THEN {}
        ELSE { [exists |-> TRUE, valid |-> TRUE,
                content |-> [p \in slots |->
                               IF NodeAt(rec, p).Ptr
                               THEN [has |-> TRUE, v |-> NilV]
                               ELSE AbsentCell]] }

\* the file names of the loader's specification: a directory part, a
\* base name, an extension in lower, upper or mixed case, and a trailer
\* that filepath.Clean removes
LoadFileNames ==
    { dir \o <<"c">> \o ext \o trailer :
        dir \in { <<>>, <<"d", "/">>, <<".", "/">>, <<"d", ".", "x", "/">> },
        ext \in { <<>>, <<".">>, <<".", "j", "s", "o", "n">>,
                  <<".", "J", "S", "O", "N">>, <<".", "J", "s", "o", "n">>,
                  <<".", "x", "m", "l">>, <<".", "X", "M", "L">>,
                  <<".", "y", "a", "m", "l">>, <<".", "Y", "A", "M", "L">>,
                  <<".", "j", "s", "o", "n", ".", "b", "a", "k">> },
        trailer \in { <<>>, <<"/", ".">> } }

\* the records of the loader's specification
LoadRecords ==
    { Record(<<Field(ProbeName, k, FALSE, <<>>, FALSE, FALSE, <<>>)>>) :
        k \in {"int", "string"} }

\* the records of the call sequences' specification
CallRecords ==
    { Record(<<f>>) : f \in {g \in TypeProbes : g.Kind \in {"int", "other"}} }

\* the files of the call sequences' specification: none, one holding a
\* value for every field, and one whose decoding fails after storing them
CallFiles(rec, st) ==
    {NoFile}
    \cup { f \in Files(rec, st) : \A p \in DOMAIN f.content : f.content[p].has }

\* the file names of the call sequences' specification
CallFileNames ==
    { <<"c", ".", "j", "s", "o", "n">>, <<"c", ".", "y", "a", "m", "l">> }

\* the file names of the merge protocol's calls
MergeFileNames ==
    { <<"c", ".", "j", "s", "o", "n">>, <<"c", ".", "X", "M", "L">>,
      <<"c", ".", "y", "a", "m", "l">> }

Long(name, val) == [t |-> "long", name |-> name, val |-> val]

Short(name, val) == [t |-> "short", name |-> name, val |-> val]

Positional(text) == [t |-> "arg", name |-> text, val |-> <<>>]

\* the tokens of a command line for a registry's options: every option
\* with a literal of its kind, by name and by shorthand; the first option
\* with a literal that does not parse; a flag that is not registered; a
\* positional argument
Tokens(opts) ==
    UNION { { Long(opts[i].name, v) : v \in CmdLiterals(opts[i].kind) } :
            i \in 1..Len(opts) }
    \cup UNION { { Short(opts[i].short, v) : v \in CmdLiterals(opts[i].kind) } :
                 i \in {j \in 1..Len(opts) : opts[j].hasShort} }
    \cup { Long(opts[i].name, BadLiteral(opts[i].kind)) :
             i \in {j \in 1..Len(opts) : j = 1 /\ HasBadLiteral(opts[j].kind)} }
    \cup { Long(<<"z", "z">>, <<"1">>), Positional(<<"a", "r", "g">>) }

RECURSIVE SeqsUpTo(_, _)
\* the sequences of at most n elements of S
SeqsUpTo(S, n) ==
    IF n = 0 THEN { <<>> }
    ELSE LET shorter == SeqsUpTo(S, n - 1)
         IN  shorter \cup { Append(s, x) : s \in shorter, x \in S }

\* the command lines of at most MaxArgs tokens
ArgLists(opts) == SeqsUpTo(Tokens(opts), MaxArgs)

\* the command lines of the binder's specification: at most one token
ShortArgLists(opts) == SeqsUpTo(Tokens(opts), 1)

Unread == [read |-> FALSE, list |-> <<>>]

\* os.Args[1:]: the process's command line, one of `lists` when the
\* process has not read it before
OsArgsChoices(lists) ==
    IF osArgs.read THEN {osArgs.list} ELSE lists

NoResult == [fn |-> "", args |-> NilArgs, err |-> NoErr]

Returned(fn, args, err) == [fn |-> fn, args |-> args, err |-> err]

\* no Execute call was made
NoExecute == [called |-> FALSE, args |-> <<>>, command |-> <<>>, exeErr |-> NoErr]

NoFlat == [panic |-> NoPanic, fields |-> <<>>]

(***************************************************************************)
(* The initial states                                                      *)
(***************************************************************************)

\* the package's variables as the program starts, for a record of Recs
InitWith(Recs, NameFuncs, Ps, Handlings) ==
    /\ record \in Recs
    /\ store \in Stores(record)
    /\ nameFunc \in NameFuncs
    /\ flagsP \in Ps
    /\ onParseError \in Handlings
    /\ flags = NoFlags
    /\ tempFlags = NoFlags
    /\ newFlagsCalls = 0
    /\ osArgs = Unread
    /\ reads = <<>>
    /\ pc = "idle"
    /\ filename = <<>>
    /\ loadErr = NoErr
    /\ loaded = NoFile
    /\ steps = <<>>
    /\ result = NoResult
    /\ panicked = NoPanic
    /\ calls = 0
    /\ callee = ""
    /\ flat = NoFlat
    /\ Commands = <<>>
    /\ handled = <<>>
    /\ invoked = <<>>
    /\ executed = NoExecute

Init == InitWith(MergeRecords, {"identity"}, {TRUE},
                 {"ContinueOnError", "ExitOnError"})

(***************************************************************************)
(* The package's functions                                                 *)
(***************************************************************************)

\* getOrCreateFlags(): the primary registry, made by NewFlags when the
\* package variable flags is nil
\* a variant: every call makes a registry of its own
getOrCreateFlagsEveryCall == NewFlags(newFlagsCalls + 1, flagsP)

getOrCreateFlags ==
    IF flags = NoFlags THEN NewFlags(newFlagsCalls + 1, flagsP) ELSE flags

\* StructVar(structPtr): [store, reg, mode, panic]
StructVar == structVar(record, store, getOrCreateFlags, FALSE)

\* a variant order of the statements: the file is loaded before the record
\* is bound into the primary registry
AfterLoadFirst(step) ==
    CASE step = "call" -> "load"
      [] step = "load" -> "bind1"
      [] step = "bind1" -> "bind2"
      [] step = "bind2" -> "parse"
      [] step = "parse" -> "idle"

\* the statement of LoadFileAndParseCommandLine that follows a statement:
\* StructVar (bind1), LoadFile (load), structVar on tempFlags (bind2),
\* tempFlags.Parse (parse), then the return
After(step) ==
    CASE step = "call" -> "bind1"
      [] step = "bind1" -> "load"
      [] step = "load" -> "bind2"
      [] step = "bind2" -> "parse"
      [] step = "parse" -> "idle"

\* a variant return that drops the load error when the parse succeeds
LFReturnWithoutLoadErr(err, args, ldErr) ==
    IF err # NoErr THEN Returned("LoadFileAndParseCommandLine", NilArgs, err)
    ELSE Returned("LoadFileAndParseCommandLine", ArgsOf(args), NoErr)

\* a variant return that reports a load error before a parse error
LFReturnLoadErrFirst(err, args, ldErr) ==
    IF ldErr # NoErr THEN Returned("LoadFileAndParseCommandLine", NilArgs, ldErr)
    ELSE IF err # NoErr
    THEN Returned("LoadFileAndParseCommandLine", NilArgs, err)
    ELSE Returned("LoadFileAndParseCommandLine", ArgsOf(args), ldErr)

\* what LoadFileAndParseCommandLine returns after tempFlags.Parse gave err
\* and left the residual arguments args
LFReturn(err, args, ldErr) ==
    IF err # NoErr THEN Returned("LoadFileAndParseCommandLine", NilArgs, err)
    ELSE Returned("LoadFileAndParseCommandLine", ArgsOf(args), ldErr)

\* a call of StructVar(structPtr), the max-th call of the process at most
StructVarUpTo(max) ==
    /\ pc = "idle"
    /\ calls < max
    /\ \E r \in {StructVar} :
           /\ flags' = r.reg
           /\ store' = r.store
           /\ newFlagsCalls' = IF flags = NoFlags THEN newFlagsCalls + 1
                               ELSE newFlagsCalls
           /\ panicked' = r.panic
           /\ pc' = IF r.panic # NoPanic THEN "panicked" ELSE "idle"
    /\ result' = Returned("StructVar", NilArgs, NoErr)
    /\ calls' = calls + 1
    /\ callee' = "StructVar"
    /\ UNCHANGED <<cmdVars, record, nameFunc, flagsP, onParseError, tempFlags, osArgs,
                   reads, filename, loadErr, loaded, steps, flat>>

StructVarCall == StructVarUpTo(MaxCalls)

\* LoadFileAndParseCommandLine(filename, structPtr) is called, by the
\* program or by one of the two functions that wrap it (fns), as the
\* max-th call of the process at most
LFCallAs(names, fns, max) ==
    /\ pc = "idle"
    /\ calls < max
    /\ \E fname \in names : filename' = fname
    /\ \E fn \in fns : callee' = fn
    /\ pc' = After("call")
    /\ steps' = <<>>
    /\ loadErr' = NoErr
    /\ loaded' = NoFile
    /\ tempFlags' = NoFlags
    /\ calls' = calls + 1
    /\ UNCHANGED <<cmdVars, record, store, nameFunc, flagsP, onParseError, flags,
                   newFlagsCalls, osArgs, reads, result, panicked, flat>>

LFCallOver(names) == LFCallAs(names, {"LoadFileAndParseCommandLine"}, MaxCalls)

\* "StructVar(structPtr)"
LFBind1 ==
    /\ pc = "bind1"
    /\ \E r \in {StructVar} :
           /\ flags' = r.reg
           /\ store' = r.store
           /\ newFlagsCalls' = IF flags = NoFlags THEN newFlagsCalls + 1
                               ELSE newFlagsCalls
           /\ panicked' = r.panic
           /\ pc' = IF r.panic # NoPanic THEN "panicked" ELSE After("bind1")
    /\ steps' = Append(steps, "bind1")
    /\ UNCHANGED <<cmdVars, record, callee, nameFunc, flagsP, onParseError, tempFlags, osArgs,
                   reads, filename, loadErr, loaded, result, calls, flat>>

\* "loadErr := LoadFile(filename, structPtr)"
LFLoadOver(files) ==
    /\ pc = "load"
    /\ \E file \in files :
         \E r \in {LoadFile(filename, file, store, reads)} :
             /\ loadErr' = r.err
             /\ store' = r.store
             /\ reads' = r.reads
             /\ loaded' = file
    /\ pc' = After("load")
    /\ steps' = Append(steps, "load")
    /\ UNCHANGED <<cmdVars, record, callee, nameFunc, flagsP, onParseError, flags, tempFlags,
                   newFlagsCalls, osArgs, filename, result, panicked, calls,
                   flat>>

\* "tempFlags := NewFlags(); structVar(structPtr, tempFlags, true)"
LFBind2 ==
    /\ pc = "bind2"
    /\ \E r \in {structVar(record, store,
                             NewFlags(newFlagsCalls + 1, flagsP), TRUE)} :
           /\ tempFlags' = r.reg
           /\ store' = r.store
           /\ panicked' = r.panic
           /\ pc' = IF r.panic # NoPanic THEN "panicked" ELSE After("bind2")
    /\ newFlagsCalls' = newFlagsCalls + 1
    /\ steps' = Append(steps, "bind2")
    /\ UNCHANGED <<cmdVars, record, callee, nameFunc, flagsP, onParseError, flags, osArgs,
                   reads, filename, loadErr, loaded, result, calls, flat>>

\* a variant test: err == os.ErrNotExist, the comparison with the error
\* value itself, which the *PathError of a failed read never equals
IsErrNotExist(err) == err = Err("file does not exist", <<>>)

\* os.IsNotExist(err)
IsNotExist(err) == err.kind = "file does not exist"

\* panic(err)
PanicWith(err) == Panic(err.kind, err.detail, <<>>)

\* MustLoadFileAndParseCommandLine, given what LoadFileAndParseCommandLine
\* returned: [panic, result]
MustLoadFileAndParseCommandLine(ret) ==
    IF ret.err # NoErr
    THEN [panic |-> PanicWith(ret.err), result |-> NoResult]
    ELSE [panic |-> NoPanic,
          result |-> Returned("MustLoadFileAndParseCommandLine", ret.args, NoErr)]

\* LoadFileIfExistsAndMustParseCommandLine, given what
\* LoadFileAndParseCommandLine returned: [panic, result]
LoadFileIfExistsAndMustParseCommandLine(ret) ==
    IF ret.err # NoErr /\ ~IsNotExist(ret.err)
    THEN [panic |-> PanicWith(ret.err), result |-> NoResult]
    ELSE [panic |-> NoPanic,
          result |-> Returned("LoadFileIfExistsAndMustParseCommandLine",
                              ret.args, NoErr)]

\* what the function the program called makes of the return of
\* LoadFileAndParseCommandLine: [panic, result]
CalleeReturn(fn, ret) ==
    CASE fn = "MustLoadFileAndParseCommandLine" ->
            MustLoadFileAndParseCommandLine(ret)
      [] fn = "LoadFileIfExistsAndMustParseCommandLine" ->
            LoadFileIfExistsAndMustParseCommandLine(ret)
      [] OTHER -> [panic |-> NoPanic, result |-> ret]

\* "err := tempFlags.Parse(os.Args[1:])" and the return; a registry made
\* with ExitOnError ends the process when the parse fails
LFParseOver(lists) ==
    /\ pc = "parse"
    /\ \E list \in OsArgsChoices(lists) :
         \E r \in {FlagsParse(tempFlags, store, list)} :
         \E w \in {CalleeReturn(callee, LFReturn(r.err, r.reg.args, loadErr))} :
         LET exits == r.err # NoErr /\ onParseError = "ExitOnError"
         IN  /\ osArgs' = [read |-> TRUE, list |-> list]
             /\ store' = r.store
             /\ tempFlags' = r.reg
             /\ pc' = IF exits THEN "exited"
                      ELSE IF w.panic # NoPanic THEN "panicked"
                      ELSE After("parse")
             /\ panicked' = IF exits THEN panicked ELSE w.panic
             /\ result' = IF exits \/ w.panic # NoPanic THEN result
                          ELSE w.result
    /\ steps' = Append(steps, "parse")
    /\ UNCHANGED <<cmdVars, record, callee, nameFunc, flagsP, onParseError, flags,
                   newFlagsCalls, reads, filename, loadErr, loaded, calls,
                   flat>>

LFCall == LFCallOver(MergeFileNames)

LFLoad == LFLoadOver(Files(record, store))

LFParse == LFParseOver(ArgLists(tempFlags.opts))

Next ==
    \/ LFCall
    \/ LFBind1
    \/ LFLoad
    \/ LFBind2
    \/ LFParse

\* the merge protocol: calls of LoadFileAndParseCommandLine on records of
\* every field type
Spec == Init /\ [][Next]_vars

(***************************************************************************)
(* The binder's specification: StructVar and LoadFileAndParseCommandLine   *)
(* on records with skipped, tagged, pointer and embedded fields, under     *)
(* every NameFunc and both kinds of registry                               *)
(***************************************************************************)

InitBind ==
    InitWith(BindRecords, {"identity", "prefix", "kebab"}, BOOLEAN,
             {"ContinueOnError"})

BindLFCall == LFCallOver({ <<"c", ".", "j", "s", "o", "n">> })

BindLFLoad == LFLoadOver(FullFiles(record, store) \cup NullFiles(record, store))

BindLFParse == LFParseOver(ShortArgLists(tempFlags.opts))

NextBind ==
    \/ StructVarCall
    \/ BindLFCall
    \/ LFBind1
    \/ BindLFLoad
    \/ LFBind2
    \/ BindLFParse

SpecBind == InitBind /\ [][NextBind]_vars

(***************************************************************************)
(* The call sequences' specification: StructVar, Parse,                    *)
(* LoadFileAndParseCommandLine and the two functions that wrap it, called  *)
(* one after the other by one process                                      *)
(***************************************************************************)

\* the functions a program calls to load a file and parse the command line
LoadAndParseFunctions ==
    { "LoadFileAndParseCommandLine", "MustLoadFileAndParseCommandLine",
      "LoadFileIfExistsAndMustParseCommandLine" }

\* a call of Parse(args...), the max-th call of the process at most; with
\* no args given the process's command line is parsed
ParseUpTo(max) ==
    /\ pc = "idle"
    /\ calls < max
    /\ \E given \in ShortArgLists(getOrCreateFlags.opts) :
       \E list \in (IF given = <<>>
                    THEN OsArgsChoices(ShortArgLists(getOrCreateFlags.opts))
                    ELSE {given}) :
       \E r \in {parse(getOrCreateFlags, store, list)} :
       LET exits == r.err # NoErr /\ onParseError = "ExitOnError"
       IN  /\ flags' = r.reg
           /\ store' = r.store
           /\ osArgs' = IF given = <<>> THEN [read |-> TRUE, list |-> list]
                        ELSE osArgs
           /\ pc' = IF exits THEN "exited" ELSE "idle"
           /\ result' = IF exits THEN result
                        ELSE Returned("Parse", r.args, r.err)
    /\ newFlagsCalls' = IF flags = NoFlags THEN newFlagsCalls + 1
                        ELSE newFlagsCalls
    /\ calls' = calls + 1
    /\ callee' = "Parse"
    /\ UNCHANGED <<cmdVars, record, nameFunc, flagsP, onParseError, tempFlags, reads,
                   filename, loadErr, loaded, steps, panicked, flat>>

InitCalls ==
    InitWith(CallRecords, {"identity"}, {TRUE},
             {"ContinueOnError", "ExitOnError"})

CallsStructVar == StructVarUpTo(MaxSeq)

CallsParse == ParseUpTo(MaxSeq)

CallsLFCall == LFCallAs(CallFileNames, LoadAndParseFunctions, MaxSeq)

CallsLFLoad == LFLoadOver(CallFiles(record, store))

CallsLFParse == LFParseOver(ShortArgLists(tempFlags.opts))

NextCalls ==
    \/ CallsStructVar
    \/ CallsParse
    \/ CallsLFCall
    \/ LFBind1
    \/ CallsLFLoad
    \/ LFBind2
    \/ CallsLFParse

SpecCalls == InitCalls /\ [][NextCalls]_vars

(***************************************************************************)
(* The walker's specification: flatStructFields on records of nested and   *)
(* embedded fields                                                         *)
(***************************************************************************)

InitFlat ==
    \E shapes \in Forests(MaxNodes) :
        InitWith({FlatRecord(shapes)}, {"identity"}, {TRUE}, {"ExitOnError"})

\* a call of flatStructFields(reflect.ValueOf(structPtr))
FlatCall ==
    /\ pc = "idle"
    /\ calls < MaxCalls
    /\ flat' = flatStructFields(record, <<>>, store)
    /\ result' = Returned("flatStructFields", NilArgs, NoErr)
    /\ calls' = calls + 1
    /\ UNCHANGED <<cmdVars, record, callee, store, nameFunc, flagsP, onParseError,
                   flags, tempFlags, newFlagsCalls, osArgs, reads, pc, filename,
                   loadErr, loaded, steps, panicked>>

NextFlat == FlatCall

SpecFlat == InitFlat /\ [][NextFlat]_vars

(***************************************************************************)
(* The loader's specification: LoadFile on file names of every extension   *)
(***************************************************************************)

InitLoad == InitWith(LoadRecords, {"identity"}, {TRUE}, {"ExitOnError"})

\* a call of LoadFile(filename, structPtr)
LoadFileCall ==
    /\ pc = "idle"
    /\ calls < MaxCalls
    /\ \E fname \in LoadFileNames, file \in Files(record, store) :
         \E r \in {LoadFile(fname, file, store, reads)} :
             /\ filename' = fname
             /\ loaded' = file
             /\ loadErr' = r.err
             /\ store' = r.store
             /\ reads' = r.reads
             /\ result' = Returned("LoadFile", NilArgs, r.err)
    /\ calls' = calls + 1
    /\ callee' = "LoadFile"
    /\ UNCHANGED <<cmdVars, record, nameFunc, flagsP, onParseError, flags, tempFlags,
                   newFlagsCalls, osArgs, pc, steps, panicked, flat>>

NextLoad == LoadFileCall

SpecLoad == InitLoad /\ [][NextLoad]_vars

(***************************************************************************)
(* The command list: CommandList, its Add methods and Execute.  An entry   *)
(* (commandDetails) is [command, fixed, k]: its action is the function     *)
(* AddWithArgs was given (fixed = FALSE), or the function one of the other *)
(* Add methods wraps around the user's action of k string arguments.       *)
(***************************************************************************)

MaxCommands == 2

MaxRest == 6

\* ErrNotEnoughArguments
ErrNotEnoughArguments == Err("not enough argumetns", <<>>)

\* what the user's action returns: nil, or an error of its own
ActionResults == { NoErr, Err("action failed", <<>>) }

\* a variant test of the wrappers: "len(args) <= k"
TooFewOrJustEnough(k, args) == Len(args) <= k

\* "len(args) < k" of the wrappers of AddWithArg .. AddWith5Args
TooFew(k, args) == Len(args) < k

\* details.action(args), the user's action returning res when it is
\* called: [exeErr, invoked], invoked being the argument lists the user's
\* action was called with
Action(details, args, res) ==
    IF ~details.fixed THEN [exeErr |-> res, invoked |-> <<args>>]
    ELSE IF TooFew(details.k, args)
    THEN [exeErr |-> ErrNotEnoughArguments, invoked |-> <<>>]
    ELSE [exeErr |-> res, invoked |-> <<SubSeq(args, 1, details.k)>>]

\* a variant comparison: "comm.command == command", as the oldest Execute
\* has it
MatchesCase(command, token) == command = token

\* "strings.ToLower(details.command) == commLower", commLower being the
\* lower-cased first argument, or "" when there is none
Matches(command, token) == ToLower(command) = ToLower(token)

\* a variant loop that goes on to the last entry whose command matches
LookupLast(list, token) ==
    LET hits == {i \in 1..Len(list) : Matches(list[i].command, token)}
    IN  IF hits = {} THEN 0
        ELSE CHOOSE i \in hits : \A j \in hits : i >= j

\* the index of the first entry of the list whose command matches, or 0
Lookup(list, token) ==
    LET hits == {i \in 1..Len(list) : Matches(list[i].command, token)}
    IN  IF hits = {} THEN 0
        ELSE CHOOSE i \in hits : \A j \in hits : i <= j

\* a variant return that does not name the command
MatchedUnnamed(details, exeErr) == [command |-> <<>>, exeErr |-> exeErr]

\* "return details.command, details.action(args)"
Matched(details, exeErr) == [command |-> details.command, exeErr |-> exeErr]

\* c.Execute(args), the user's action returning res when it is called:
\* [command, exeErr, handled, invoked]
Execute(list, args, res) ==
    LET token == IF Len(args) > 0 THEN args[1] ELSE <<>>
        rest == IF Len(args) > 0 THEN Tail(args) ELSE args
        i == Lookup(list, token)
    IN  IF i = 0
        THEN [command |-> <<>>, exeErr |-> NoErr, handled |-> <<>>,
              invoked |-> <<>>]
        ELSE LET a == Action(list[i], rest, res)
                 ret == Matched(list[i], a.exeErr)
             IN  [command |-> ret.command, exeErr |-> ret.exeErr,
                  handled |-> <<[entry |-> i, args |-> rest]>>,
                  invoked |-> [n \in 1..Len(a.invoked) |->
                                 [entry |-> i, args |-> a.invoked[n]]]]

\* the command names the program registers
CommandNames == { <<"r", "u", "n">>, <<"S", "t", "o", "p">> }

\* the first tokens of the command lines
FirstTokens ==
    { <<"r", "u", "n">>, <<"R", "U", "N">>, <<"s", "t", "o", "p">>,
      <<"S", "t", "o", "p">>, <<"x">>, <<>> }

\* the tokens after the first: "1", "2", ...
RestTokens == [i \in 1..MaxRest |-> <<DigitChars[i + 1]>>]

\* the argument lists Execute is called with
CommandLines ==
    { <<>> }
    \cup { <<t>> \o SubSeq(RestTokens, 1, n) : t \in FirstTokens,
                                               n \in 0..MaxRest }

\* "*c = append(*c, commandDetails{...})" of AddWithArgs; the program
\* registers its commands before it dispatches its command line
AddEntry(command, fixed, k) ==
    /\ ~executed.called
    /\ Len(Commands) < MaxCommands
    /\ Commands' = Append(Commands, [command |-> command, fixed |-> fixed,
                                     k |-> k])
    /\ UNCHANGED <<flagVars, handled, invoked, executed>>

AddWithArgs == \E c \in CommandNames : AddEntry(c, FALSE, 0)

AddWithArg == \E c \in CommandNames : AddEntry(c, TRUE, 1)

AddWith2Args == \E c \in CommandNames : AddEntry(c, TRUE, 2)

AddWith3Args == \E c \in CommandNames : AddEntry(c, TRUE, 3)

AddWith4Args == \E c \in CommandNames : AddEntry(c, TRUE, 4)

AddWith5Args == \E c \in CommandNames : AddEntry(c, TRUE, 5)

Add == \E c \in CommandNames : AddEntry(c, TRUE, 0)

AddDefault == AddEntry(<<>>, TRUE, 0)

\* the call of Commands.Execute(args) that dispatches the command line
ExecuteCall ==
    /\ ~executed.called
    /\ \E args \in CommandLines, res \in ActionResults :
       \E r \in {Execute(Commands, args, res)} :
           /\ handled' = r.handled
           /\ invoked' = r.invoked
           /\ executed' = [called |-> TRUE, args |-> args,
                           command |-> r.command, exeErr |-> r.exeErr]
    /\ UNCHANGED <<flagVars, Commands>>

InitCmd == InitWith({Record(<<Plain>>)}, {"identity"}, {TRUE}, {"ExitOnError"})

NextCmd ==
    \/ AddWithArgs
    \/ AddWithArg
    \/ AddWith2Args
    \/ AddWith3Args
    \/ AddWith4Args
    \/ AddWith5Args
    \/ Add
    \/ AddDefault
    \/ ExecuteCall

SpecCmd == InitCmd /\ [][NextCmd]_vars

(***************************************************************************)
(* Properties of the merge protocol                                        *)
(***************************************************************************)

\* the four steps of a call, in the order of the source's statements
StepOrder == <<"bind1", "load", "bind2", "parse">>

\* the call has run all four steps and returned
LFReturned ==
    /\ pc = "idle"
    /\ steps = StepOrder
    /\ result.fn = "LoadFileAndParseCommandLine"

\* the tokens of the command line that name the option opt
TokensFor(opt, list) ==
    SelectSeq(list, LAMBDA tok :
        \/ tok.t = "long" /\ tok.name = opt.name
        \/ tok.t = "short" /\ opt.hasShort /\ tok.name = opt.short)

\* the positional arguments of a command line, in order
Residual(list) ==
    LET pos == SelectSeq(list, LAMBDA tok : tok.t = "arg")
    IN  [i \in 1..Len(pos) |-> pos[i].name]

\* the loaded file supplies a value for the slot
FileSupplies(p) ==
    /\ loadErr = NoErr
    /\ p \in DOMAIN loaded.content
    /\ loaded.content[p].has

\* the default of a field by its tags alone: the default tag's value, or
\* the zero value of the type
TagOrZero(f) ==
    IF f.hasDefault
    THEN IF f.Kind = "string" THEN StrV(f.default)
         ELSE NumV(ParseDefault(f.Kind, f.default).n)
    ELSE ZeroVal(f.Kind)

\* the value the precedence rule gives the field of option opt: the last
\* flag of the command line, else the file's value, else the tag-or-zero
\* default
MergedValue(opt) ==
    LET toks == TokensFor(opt, osArgs.list)
    IN  IF toks # <<>> THEN SetValue(opt.kind, toks[Len(toks)].val).v
        ELSE IF FileSupplies(opt.slot) THEN loaded.content[opt.slot].v
        ELSE TagOrZero(NodeAt(record, opt.slot))

\* C1: after LoadFileAndParseCommandLine has returned without a decode or
\* parse error, every registered field of a primitive type (or pointer to
\* one) holds the command line's value if a flag names it, else the file's
\* value if the file supplies one, else its default-tag value or the zero
\* value of its type.
C1_Precedence ==
    (LFReturned /\ ~result.args.nil /\ loadErr.kind # "decode") =>
        \A i \in 1..Len(tempFlags.opts) :
            tempFlags.opts[i].kind \in PrimitiveKinds =>
                store[tempFlags.opts[i].slot] = MergedValue(tempFlags.opts[i])

\* C2: the steps of a call happen in the order bind1, load, bind2, parse,
\* none repeated; the program is always at the statement after the steps
\* done; the load comes after the binding into the primary registry, which
\* is therefore done when the load fails; the registry of step 3 is a new
\* one, and step 4 parses against it.
C2_StepOrder ==
    /\ \E n \in 0..4 : steps = SubSeq(StepOrder, 1, n)
    /\ pc = "bind1" => steps = <<>>
    /\ pc = "load" => steps = <<"bind1">>
    /\ pc = "bind2" => steps = <<"bind1", "load">>
    /\ pc = "parse" => steps = <<"bind1", "load", "bind2">>
    /\ Len(steps) >= 1 => flags # NoFlags
    /\ loadErr # NoErr => (Len(steps) >= 2 /\ steps[1] = "bind1" /\ flags # NoFlags)
    /\ (Len(steps) >= 3 /\ panicked = NoPanic) =>
          (tempFlags # NoFlags /\ tempFlags.id # flags.id
           /\ tempFlags.id = newFlagsCalls)
    /\ osArgs.read => (Len(steps) = 4 \/ calls > 1)

\* a call whose load failed has run all four steps in order
C2_Witness == LFReturned /\ loadErr # NoErr /\ flags.opts # <<>>

TypedOpts(reg) ==
    {i \in 1..Len(reg.opts) : reg.opts[i].kind \in PrimitiveKinds}

\* the field declaration an option is bound to
FieldOf(opt) == NodeAt(record, opt.slot)

\* C5: the primary registry is only ever filled by tag-defaults bindings
\* (StructVar); each of its options of a non-custom field has the parsed
\* default tag as its default, or the zero value of the type when the
\* field has no default tag, never the field's runtime value.
C5_TagDefaults ==
    \A i \in TypedOpts(flags) : flags.opts[i].def = TagOrZero(FieldOf(flags.opts[i]))

\* C6: the binding into the new registry (current-value mode) registers
\* every non-custom field with the value the field holds when the binding
\* starts, and so leaves the record as the load left it.
C6_CurrentValues ==
    [][(pc = "bind2" /\ pc' = "parse") =>
          /\ \A i \in TypedOpts(tempFlags') :
                tempFlags'.opts[i].def = store[tempFlags'.opts[i].slot]
          /\ store' = store]_vars

\* C7: no option of any registry is bound to a field whose name tag is
\* "-", and no binding call panics at such a field.
C7_SkipNeverRegistered ==
    /\ \A i \in 1..Len(flags.opts) : FieldOf(flags.opts[i]).flag # <<"-">>
    /\ \A i \in 1..Len(tempFlags.opts) : FieldOf(tempFlags.opts[i]).flag # <<"-">>
    /\ panicked # NoPanic =>
          (panicked.slot = <<>> \/ NodeAt(record, panicked.slot).flag # <<"-">>)

\* the flattened fields a binding call registers when it does not panic:
\* those without the skip tag whose type the binder knows
Registrable ==
    LET fl == flatStructFields(record, <<>>, store).fields
    IN  {fl[i].slot : i \in {j \in 1..Len(fl) :
            /\ fl[j].f.flag # <<"-">>
            /\ fl[j].f.Kind \in PrimitiveKinds \cup {"custom"}}}

\* the name the claim gives the option of a field
NameOf(f) == NameFunc(IF f.flag # <<>> THEN f.flag ELSE f.Name)

\* C9: every option is named NameFunc(name tag) when the field has a
\* non-empty name tag and NameFunc(field name) otherwise, NameFunc being
\* applied once; the fields left out are those whose raw tag is "-", so a
\* tag that NameFunc maps to "-" is registered and a "-" tag that NameFunc
\* maps elsewhere is not.
C9_OptionNames ==
    /\ \A i \in 1..Len(flags.opts) :
          /\ flags.opts[i].name = NameOf(FieldOf(flags.opts[i]))
          /\ FieldOf(flags.opts[i]).flag # <<"-">>
    /\ \A i \in 1..Len(tempFlags.opts) :
          /\ tempFlags.opts[i].name = NameOf(FieldOf(tempFlags.opts[i]))
          /\ FieldOf(tempFlags.opts[i]).flag # <<"-">>
    /\ (result.fn = "StructVar" /\ panicked = NoPanic) =>
          {flags.opts[i].slot : i \in 1..Len(flags.opts)} = Registrable

\* under a NameFunc that maps "_" to "-", a field tagged "_" is registered
\* under the name "-"
C9_Witness ==
    /\ result.fn = "StructVar"
    /\ nameFunc = "kebab"
    /\ \E i \in 1..Len(flags.opts) :
          /\ FieldOf(flags.opts[i]).flag = <<"_">>
          /\ flags.opts[i].name = <<"-">>

(***************************************************************************)
(* Properties of the walker                                                *)
(***************************************************************************)

\* the slots of the record, the record's own left out
FieldPaths ==
    LET ps == Paths(record, <<>>)
    IN  {ps[i] : i \in 2..Len(ps)}

\* every field on the way from the record to the slot, the slot's own
\* left out, is embedded
ReachedByEmbedding(p) ==
    \A k \in 1..(Len(p) - 1) : NodeAt(record, SubSeq(p, 1, k)).Anonymous

\* the embedded fields the walker reaches
EmbeddedPaths ==
    {p \in FieldPaths : ReachedByEmbedding(p) /\ NodeAt(record, p).Anonymous}

\* the flattenable fields: the fields that are not embedded, of the record
\* and of its embedded sub-records
FlattenablePaths ==
    {p \in FieldPaths : ReachedByEmbedding(p) /\ ~NodeAt(record, p).Anonymous}

\* the flattenable fields that are nested in embedded sub-records
NestedPaths == {p \in FlattenablePaths : Len(p) > 1}

\* every embedded field is a struct or a pointer to one that is not nil
EmbeddedAreStructs ==
    \A p \in EmbeddedPaths :
        /\ NodeAt(record, p).Kind = "struct"
        /\ ~(NodeAt(record, p).Ptr /\ store[p].nil)

\* slot p is declared before slot q in depth-first order
DeclaredBefore(p, q) ==
    \E k \in 1..Len(p) :
        /\ k <= Len(q)
        /\ p[k] < q[k]
        /\ \A j \in 1..(k - 1) : p[j] = q[j]

\* flatStructFields has been called
FlatCalled == result.fn = "flatStructFields"

\* the result holds the flattenable fields, each once, in depth-first
\* declaration order, and no embedded field
FlatInOrder ==
    /\ flat.panic = NoPanic
    /\ {flat.fields[i].slot : i \in 1..Len(flat.fields)} = FlattenablePaths
    /\ \A i \in 1..Len(flat.fields) :
          /\ flat.fields[i].f = NodeAt(record, flat.fields[i].slot)
          /\ ~flat.fields[i].f.Anonymous
    /\ \A i, j \in 1..Len(flat.fields) :
          i < j => DeclaredBefore(flat.fields[i].slot, flat.fields[j].slot)

\* C8 as stated, on the records flatStructFields does not panic on: the
\* result is in depth-first order without duplicates and has N+M
\* descriptors, N the number of flattenable fields and M the number of
\* those nested in embedded sub-records.
C8_CountNPlusM ==
    (FlatCalled /\ EmbeddedAreStructs) =>
        /\ FlatInOrder
        /\ Len(flat.fields) =
              Cardinality(FlattenablePaths) + Cardinality(NestedPaths)

\* C8: for a record whose embedded fields are structs or non-nil pointers
\* to structs, flatStructFields returns every field that is not embedded,
\* of the record and of its embedded sub-records, exactly once and in
\* depth-first declaration order, the embedded fields themselves left out:
\* exactly N descriptors for N flattenable fields, the M nested ones among
\* them; for any other record it panics.
C8_Flatten ==
    FlatCalled =>
        IF EmbeddedAreStructs
        THEN /\ FlatInOrder
             /\ Len(flat.fields) = Cardinality(FlattenablePaths)
        ELSE flat.panic # NoPanic /\ flat.fields = <<>>

\* a record with a field of its own and a field inside an embedded
\* sub-record of an embedded sub-record has been flattened
C8_Witness ==
    /\ FlatCalled
    /\ EmbeddedAreStructs
    /\ flat.panic = NoPanic
    /\ \E p \in NestedPaths : Len(p) = 3
    /\ \E p \in FlattenablePaths : Len(p) = 1
    /\ Len(flat.fields) = 2

(***************************************************************************)
(* Properties of the loader                                                *)
(***************************************************************************)

\* e is the extension of the path: empty when the last element of the
\* path has no dot, else the suffix that starts at that element's last dot
IsExtension(path, e) ==
    /\ Len(e) <= Len(path)
    /\ e = SubSeq(path, Len(path) - Len(e) + 1, Len(path))
    /\ \A i \in 2..Len(e) : e[i] \notin {".", "/"}
    /\ IF e = <<>>
       THEN \A i \in 1..Len(path) :
               path[i] = "." => \E j \in (i + 1)..Len(path) : path[j] = "/"
       ELSE e[1] = "."

\* the lower-cased extension of the file a name denotes
LowerExtension(name) ==
    LET path == Clean(name)
        e == CHOOSE x \in {SubSeq(path, k, Len(path)) : k \in 1..(Len(path) + 1)} :
                IsExtension(path, x)
    IN  ToLower(e)

\* C10: a call of LoadFile with a file name whose lower-cased extension is
\* neither .json nor .xml returns the error "file extension not supported"
\* with that extension, reads no file and leaves the record as it is; with
\* the extension .json or .xml in any case it reads the file with the JSON
\* or XML codec.
C10_UnsupportedExtension ==
    [][calls' = calls + 1 =>
          LET e == LowerExtension(filename')
          IN  IF e \notin { <<".", "j", "s", "o", "n">>, <<".", "x", "m", "l">> }
              THEN /\ loadErr' = Err("file extension not supported", e)
                   /\ result' = Returned("LoadFile", NilArgs, loadErr')
                   /\ reads' = reads
                   /\ store' = store
              ELSE /\ reads' = Append(reads, [name |-> Clean(filename'),
                                              by |-> Tail(e)])
                   /\ loadErr'.kind # "file extension not supported"]_vars

\* LoadFile has refused a file of the extension .YAML, naming .yaml, and
\* has left a field that is not zero as it was
C10_Witness ==
    /\ result.fn = "LoadFile"
    /\ loadErr = Err("file extension not supported", <<".", "y", "a", "m", "l">>)
    /\ \E i \in 1..Len(filename) : filename[i] = "Y"
    /\ loaded.exists
    /\ store[<<1>>] = NonZero("int")
    /\ reads = <<>>

(***************************************************************************)
(* Properties of the binder: fatal errors                                  *)
(***************************************************************************)

\* the step is a binding call: StructVar, or one of the two bindings of
\* LoadFileAndParseCommandLine
BindingStep ==
    \/ pc = "bind1"
    \/ pc = "bind2"
    \/ (pc = "idle" /\ calls' = calls + 1 /\ callee' = "StructVar")

\* the fields of the record that exist: every field above them that is a
\* pointer is not nil
Exists(p) ==
    \A k \in 1..(Len(p) - 1) :
        ~(NodeAt(record, SubSeq(p, 1, k)).Ptr /\ store[SubSeq(p, 1, k)].nil)

\* the non-skipped fields of a pointer type whose pointer is nil, among
\* the fields of the record and of its embedded sub-records
NilPointerFields ==
    {p \in FieldPaths :
        /\ ReachedByEmbedding(p)
        /\ Exists(p)
        /\ NodeAt(record, p).flag # <<"-">>
        /\ NodeAt(record, p).Ptr
        /\ store[p].nil}

\* C11: a binding call on a record with a non-skipped nil pointer field
\* panics; a panic raised at such a field names the field; the call
\* registers no option for such a field.
C11_NilPointerPanics ==
    [][(BindingStep /\ NilPointerFields # {}) =>
          /\ panicked' # NoPanic
          /\ panicked'.slot \in NilPointerFields =>
                panicked'.field = NodeAt(record, panicked'.slot).Name
          /\ \A i \in (Len(flags.opts) + 1)..Len(flags'.opts) :
                flags'.opts[i].slot \notin NilPointerFields
          /\ pc = "bind2" =>
                \A i \in 1..Len(tempFlags'.opts) :
                    tempFlags'.opts[i].slot \notin NilPointerFields]_vars

\* the non-skipped fields of a recognised type with a parse whose default
\* tag's literal fails that parse
BadDefaultFields ==
    {p \in FlattenablePaths :
        /\ Exists(p)
        /\ NodeAt(record, p).flag # <<"-">>
        /\ NodeAt(record, p).Kind \in PrimitiveKinds \ {"string"}
        /\ NodeAt(record, p).hasDefault
        /\ ~ParseDefault(NodeAt(record, p).Kind, NodeAt(record, p).default).ok}

\* C12: every binding call on a record with a field whose default tag's
\* literal fails the parse of the field's type panics, and the command
\* line has not been parsed when it does.
C12_BadDefaultPanics ==
    [][(BindingStep /\ BadDefaultFields # {}) =>
          /\ panicked' # NoPanic
          /\ pc' = "panicked"
          /\ osArgs' = osArgs]_vars

(***************************************************************************)
(* Properties of the primary registry                                      *)
(***************************************************************************)

\* a is a prefix of b
IsPrefix(a, b) == Len(a) <= Len(b) /\ SubSeq(b, 1, Len(a)) = a

\* the step is a call of Parse
ParseStep == pc = "idle" /\ calls' = calls + 1 /\ callee' = "Parse"

\* the slots of the options a registry holds
SlotsOf(reg) == { reg.opts[i].slot : i \in 1..Len(reg.opts) }

\* C13: over any sequence of StructVar, Parse and
\* LoadFileAndParseCommandLine calls the primary registry is made by
\* NewFlags at most once, by the first call that needs it; every later
\* call uses that registry, with the options bound so far, and a Parse
\* sets only fields that StructVar has bound into it
C13_OneRegistry ==
    [][/\ flags # NoFlags =>
            /\ flags'.id = flags.id
            /\ IsPrefix(flags.opts, flags'.opts)
       /\ (flags = NoFlags /\ flags' # NoFlags) =>
            /\ newFlagsCalls' = newFlagsCalls + 1
            /\ flags'.id = newFlagsCalls'
       /\ ParseStep =>
            /\ flags'.opts = flags.opts
            /\ \A p \in DOMAIN store :
                 store'[p] # store[p] => p \in SlotsOf(flags)]_vars

\* StructVar made the registry and bound an option, and the Parse called
\* after it has set the option's field to the command line's value
C13_Witness ==
    /\ callee = "Parse"
    /\ pc = "idle"
    /\ calls = 2
    /\ newFlagsCalls = 1
    /\ flags.id = 1
    /\ result = Returned("Parse", ArgsOf(<<>>), NoErr)
    /\ \E i \in 1..Len(flags.opts) :
          /\ flags.opts[i].kind # "custom"
          /\ store[flags.opts[i].slot] # flags.opts[i].def

(***************************************************************************)
(* Properties of the functions that wrap LoadFileAndParseCommandLine       *)
(***************************************************************************)

\* the error LoadFileAndParseCommandLine returns when tempFlags.Parse has
\* parsed list: the parse error, else the load error
LFError(list) ==
    LET err == FlagsParse(tempFlags, store, list).err
    IN  IF err # NoErr THEN err ELSE loadErr

\* the step is the last of a call of fn, and the call does not end the
\* process inside Parse
LastStepOf(fn) ==
    /\ pc = "parse"
    /\ callee = fn
    /\ ~(/\ FlagsParse(tempFlags, store, osArgs'.list).err # NoErr
         /\ onParseError = "ExitOnError")

\* the step panics with err and returns nothing
PanicsWith(err) ==
    /\ pc' = "panicked"
    /\ panicked'.kind = err.kind
    /\ panicked'.field = err.detail
    /\ result' = result

\* the step returns the residual arguments of the command line as fn's
\* only result
ReturnsResidual(fn) ==
    /\ pc' = "idle"
    /\ panicked' = NoPanic
    /\ result' = Returned(fn, ArgsOf(Residual(osArgs'.list)), NoErr)

\* C17: MustLoadFileAndParseCommandLine panics with the error whenever
\* LoadFileAndParseCommandLine returns one, and otherwise returns the
\* residual arguments; LoadFileIfExistsAndMustParseCommandLine does the
\* same, except that the load error of a file that does not exist, after
\* a successful parse, is dropped and the residual arguments are returned
C17_MustVariants ==
    [][/\ LastStepOf("MustLoadFileAndParseCommandLine") =>
            IF LFError(osArgs'.list) # NoErr
            THEN PanicsWith(LFError(osArgs'.list))
            ELSE ReturnsResidual("MustLoadFileAndParseCommandLine")
       /\ LastStepOf("LoadFileIfExistsAndMustParseCommandLine") =>
            IF /\ LFError(osArgs'.list) # NoErr
               /\ ~(/\ LFError(osArgs'.list) = loadErr
                    /\ loadErr.kind = "file does not exist")
            THEN PanicsWith(LFError(osArgs'.list))
            ELSE ReturnsResidual("LoadFileIfExistsAndMustParseCommandLine")
      ]_vars

\* LoadFileIfExistsAndMustParseCommandLine has returned a positional
\* argument although the file did not exist
C17_Witness ==
    /\ pc = "idle"
    /\ callee = "LoadFileIfExistsAndMustParseCommandLine"
    /\ steps = StepOrder
    /\ loadErr.kind = "file does not exist"
    /\ result.fn = "LoadFileIfExistsAndMustParseCommandLine"
    /\ result.args = ArgsOf(<<<<"a", "r", "g">>>>)
    /\ result.err = NoErr

(***************************************************************************)
(* Properties of the binder: the mode of a binding call                    *)
(***************************************************************************)

\* the mode the binding call of the step is made with: true for the
\* binding into the new registry, false for StructVar
CallMode == pc = "bind2"

\* the options the step registers
NewOpts ==
    IF pc = "bind2" THEN tempFlags'.opts
    ELSE SubSeq(flags'.opts, Len(flags.opts) + 1, Len(flags'.opts))

\* the default the call's mode gives a field that has a good default tag
\* or none: the field's value when the call starts, or the default tag's
\* value, or the zero value of the type
DefaultByMode(f, slot) ==
    IF CallMode THEN store[slot] ELSE TagOrZero(f)

\* C18: in one binding call the default registered for a field that is
\* not a pointer is the one the call's mode gives it, whichever fields
\* come before it in the record
C18_ModeOfTheCall ==
    [][BindingStep =>
          \A i \in 1..Len(NewOpts) :
             LET f == FieldOf(NewOpts[i])
             IN  (f.Kind \in PrimitiveKinds /\ ~f.Ptr) =>
                    NewOpts[i].def = DefaultByMode(f, NewOpts[i].slot)]_vars

(***************************************************************************)
(* Properties of the binder: the registrations of one call                 *)
(***************************************************************************)

\* the slots of a sequence of flattened fields or of options
Slots(seq) == [i \in 1..Len(seq) |-> seq[i].slot]

\* the flattened fields of the record that are not skipped and whose type
\* the binder knows, in flattened order
ToRegister ==
    SelectSeq(flatStructFields(record, <<>>, store).fields,
              LAMBDA d : /\ d.f.flag # <<"-">>
                         /\ d.f.Kind \in PrimitiveKinds \cup {"custom"})

\* the registry the binding call of the step registers into, after the
\* step
TargetAfter == IF pc = "bind2" THEN tempFlags' ELSE flags'

\* the names of the options of a registry are all different
NamesDiffer(reg) ==
    \A i, j \in 1..Len(reg.opts) :
        reg.opts[i].name = reg.opts[j].name => i = j

\* the original statement of C19, for calls that do not panic for another
\* reason than a name registered twice: the call registers every field
\* that is not skipped and whose type is known, once and in flattened
\* order, two fields of the same option name included
C19_BothRegistered ==
    [][(BindingStep /\ panicked'.kind \in {"none", "flag redefined"}) =>
          Slots(NewOpts) = Slots(ToRegister)]_vars

\* C19: the registrations one binding call makes follow the flattened
\* field sequence restricted to the fields that are not skipped and whose
\* type is known, in order and one per field: all of them when the call
\* returns, those before the offending field when it panics.  Fields of an
\* unknown type are passed over.  The binder neither merges nor checks
\* option names; the registry refuses the second registration of a name
\* with a panic, so no registry holds a name twice and the fields after
\* the second field of that name are not registered.
C19_Registrations ==
    [][BindingStep =>
          /\ IsPrefix(Slots(NewOpts), Slots(ToRegister))
          /\ panicked' = NoPanic => Slots(NewOpts) = Slots(ToRegister)
          /\ NamesDiffer(TargetAfter)
          /\ panicked'.kind = "flag redefined" =>
                LET d == ToRegister[Len(NewOpts) + 1]
                IN  /\ Len(NewOpts) < Len(ToRegister)
                    /\ panicked'.slot = d.slot
                    /\ panicked'.field = NameOf(d.f)
                    /\ \E i \in 1..Len(TargetAfter.opts) :
                          TargetAfter.opts[i].name = NameOf(d.f)
          /\ (\E i, j \in 1..Len(ToRegister) :
                 /\ i < j
                 /\ NameOf(ToRegister[i].f) = NameOf(ToRegister[j].f)) =>
                panicked' # NoPanic]_vars

\* StructVar has panicked at the second of two fields of one option name:
\* the first is registered, the second and the field after it are not
C19_Witness ==
    /\ callee = "StructVar"
    /\ pc = "panicked"
    /\ panicked.kind = "flag redefined"
    /\ panicked.slot = <<2>>
    /\ Slots(flags.opts) = << <<1>> >>
    /\ Len(record.sub) = 3
    /\ record.sub[3].Kind = "int"

(***************************************************************************)
(* Properties of the binder: self-parsing values                           *)
(***************************************************************************)

\* the options the step registers for a slot
NewOptsOf(slot) == {i \in 1..Len(NewOpts) : NewOpts[i].slot = slot}

\* C20: a binding call that reaches a field of a self-parsing type that
\* is not skipped registers it once by Var or VarP on the field's own
\* storage, leaves its value alone and does not panic at it, whatever its
\* default tag and whether or not its type is a pointer type (a call that
\* panics at an earlier field, or because the option name is taken, does
\* not register it)
C20_CustomValues ==
    [][(BindingStep /\ panicked'.kind # "flag redefined") =>
          \A k \in 1..Len(ToRegister) :
             LET d == ToRegister[k]
             IN  d.f.Kind = "custom" =>
                    /\ panicked'.slot # d.slot
                    /\ store'[d.slot] = store[d.slot]
                    /\ \A i \in NewOptsOf(d.slot) :
                          NewOpts[i].method \in {"Var", "VarP"}
                    /\ Cardinality(NewOptsOf(d.slot)) =
                          (IF panicked' = NoPanic THEN 1 ELSE 0)]_vars

(***************************************************************************)
(* Properties of the command list                                          *)
(***************************************************************************)

\* the step is a call of Execute
ExecuteStep == ~executed.called /\ executed'.called

\* the entries whose command is the token but for the case of letters
SameButCase(token) ==
    {i \in 1..Len(Commands) : ToLower(Commands[i].command) = ToLower(token)}

\* no entry of the list is a default command
NoDefault == \A i \in 1..Len(Commands) : Commands[i].command # <<>>

\* C14: Execute compares the first argument with the registered command
\* names without regard to case; when entries match it calls the action
\* of the first of them once, with the arguments after the first in
\* order, and no other action; when none matches it calls none
C14_Dispatch ==
    [][(ExecuteStep /\ Len(executed'.args) > 0) =>
          LET m == SameButCase(executed'.args[1])
          IN  IF m = {} THEN handled' = <<>> /\ invoked' = <<>>
              ELSE /\ Len(handled') = 1
                   /\ handled'[1].entry \in m
                   /\ \A j \in m : handled'[1].entry <= j
                   /\ handled'[1].args = Tail(executed'.args)
                   /\ executed'.command = Commands[handled'[1].entry].command
                   /\ Len(invoked') <= 1
                   /\ \A n \in 1..Len(invoked') :
                         invoked'[n].entry = handled'[1].entry]_vars

\* "RUN 1 2" has run the second entry, registered as "run", with "1 2"
C14_Witness ==
    /\ executed.called
    /\ executed.args = << <<"R", "U", "N">>, <<"1">>, <<"2">> >>
    /\ Len(Commands) = 2
    /\ Commands[1].command = <<"S", "t", "o", "p">>
    /\ Commands[2].command = <<"r", "u", "n">>
    /\ handled = << [entry |-> 2, args |-> << <<"1">>, <<"2">> >>] >>
    /\ executed.command = <<"r", "u", "n">>

\* C15: an entry added by AddWithArg .. AddWith5Args for an action of k
\* arguments, when Execute calls it with fewer than k arguments, returns
\* ErrNotEnoughArguments without calling the action, and otherwise calls
\* the action once with the first k arguments, leaving out the others
C15_FixedArity ==
    [][(ExecuteStep /\ handled' # <<>>) =>
          LET h == handled'[1]
              d == Commands[h.entry]
          IN  (d.fixed /\ d.k \in 1..5) =>
                 IF Len(h.args) < d.k
                 THEN /\ executed'.exeErr = ErrNotEnoughArguments
                      /\ invoked' = <<>>
                 ELSE /\ invoked' = << [entry |-> h.entry,
                                        args |-> SubSeq(h.args, 1, d.k)] >>
                      /\ executed'.exeErr \in ActionResults]_vars

\* an action of five arguments was called with the first five of six
C15_Witness ==
    /\ executed.called
    /\ Len(handled) = 1
    /\ Len(handled[1].args) = 6
    /\ Commands[handled[1].entry].k = 5
    /\ Len(invoked) = 1
    /\ invoked[1].args = SubSeq(handled[1].args, 1, 5)

\* C16: when the list has no default command and the first argument
\* matches no entry (or there is no argument), Execute calls no action and
\* returns the empty command name with a nil error; whenever it has
\* called an action it returns the command's name, which is not empty, so
\* the caller can tell the two apart whatever the action returned
C16_NotFound ==
    [][(ExecuteStep /\ NoDefault) =>
          /\ (\/ Len(executed'.args) = 0
              \/ SameButCase(executed'.args[1]) = {}) =>
                /\ handled' = <<>>
                /\ invoked' = <<>>
                /\ executed'.command = <<>>
                /\ executed'.exeErr = NoErr
          /\ handled' # <<>> => executed'.command # <<>>]_vars

\* "x" was dispatched on a list that holds commands and no default
C16_Witness ==
    /\ executed.called
    /\ executed.args = << <<"x">> >>
    /\ Commands # <<>>
    /\ NoDefault
    /\ handled = <<>>
    /\ executed.command = <<>>
    /\ executed.exeErr = NoErr

(***************************************************************************)
(* Properties of the binder: the short tag                                 *)
(***************************************************************************)

\* the registration methods of FlagsP, which take a shorthand
ShorthandMethods ==
    { "VarP", "DurationVarP", "BoolVarP", "Float64VarP", "Int64VarP",
      "IntVarP", "StringVarP", "Uint64VarP", "UintVarP" }

\* the registration methods of Flags
PlainMethods ==
    { "Var", "DurationVar", "BoolVar", "Float64Var", "Int64Var", "IntVar",
      "StringVar", "Uint64Var", "UintVar" }

\* what an option was registered with, but for the shorthand
WithoutShorthand(opt) ==
    [name |-> opt.name, def |-> opt.def, usage |-> opt.usage,
     slot |-> opt.slot, kind |-> opt.kind]

\* the options the binding call of the step would register on a registry
\* of the other sort: one that is no FlagsP when the call's registry is
\* one, and the reverse
OnOtherRegistry ==
    IF pc = "bind2"
    THEN structVar(record, store, NewFlags(newFlagsCalls + 1, ~flagsP),
                   TRUE).reg.opts
    ELSE LET reg == getOrCreateFlags
             opts == structVar(record, store, [reg EXCEPT !.p = ~flagsP],
                               FALSE).reg.opts
         IN  SubSeq(opts, Len(flags.opts) + 1, Len(opts))

\* C21: a binding call registers a field through the method that takes a
\* shorthand, with the short tag as the shorthand, exactly when the field
\* has a short tag and the registry is a FlagsP; otherwise it registers
\* the field through the plain method, and the registration has the name,
\* default and usage the field gets on a registry of the other sort
C21_ShortTag ==
    [][BindingStep =>
          /\ \A i \in 1..Len(NewOpts) :
                LET o == NewOpts[i]
                    f == FieldOf(o)
                IN  IF f.hasShort /\ flagsP
                    THEN /\ o.method \in ShorthandMethods
                         /\ o.hasShort
                         /\ o.short = f.short
                    ELSE /\ o.method \in PlainMethods
                         /\ ~o.hasShort
                         /\ o.short = <<>>
          /\ Len(OnOtherRegistry) = Len(NewOpts)
          /\ \A i \in 1..Len(NewOpts) :
                WithoutShorthand(OnOtherRegistry[i]) =
                   WithoutShorthand(NewOpts[i])]_vars

\* on a registry that is no FlagsP a field with a short tag and a usage
\* was registered through IntVar under its own name
C21_Witness ==
    /\ callee = "StructVar"
    /\ pc = "idle"
    /\ ~flagsP
    /\ \E i \in 1..Len(flags.opts) :
          /\ FieldOf(flags.opts[i]).hasShort
          /\ flags.opts[i].method = "IntVar"
          /\ ~flags.opts[i].hasShort
          /\ flags.opts[i].name = FieldOf(flags.opts[i]).Name
          /\ flags.opts[i].usage = <<"u">>

(***************************************************************************)
(* Properties of the command list: the default command                     *)
(***************************************************************************)

\* the entries AddDefault has added: those of the empty name
Defaults == {i \in 1..Len(Commands) : Commands[i].command = <<>>}

\* the first of the default entries
FirstDefault == CHOOSE i \in Defaults : \A j \in Defaults : i <= j

\* C22: Execute without arguments runs the first entry that AddDefault
\* has added, once and with an empty argument list; a first argument that
\* is not empty and matches no command runs nothing, the default neither;
\* of several default entries none but the first ever runs
C22_Default ==
    [][ExecuteStep =>
          /\ (executed'.args = <<>> /\ Defaults # {}) =>
                /\ handled' = << [entry |-> FirstDefault, args |-> <<>>] >>
                /\ invoked' = << [entry |-> FirstDefault, args |-> <<>>] >>
                /\ executed'.command = <<>>
                /\ executed'.exeErr \in ActionResults
          /\ (/\ Len(executed'.args) > 0
              /\ executed'.args[1] # <<>>
              /\ SameButCase(executed'.args[1]) = {}) =>
                /\ handled' = <<>>
                /\ invoked' = <<>>
          /\ \A n \in 1..Len(handled') :
                handled'[n].entry \in Defaults =>
                   handled'[n].entry = FirstDefault
          /\ \A n \in 1..Len(invoked') :
                invoked'[n].entry \in Defaults =>
                   invoked'[n].entry = FirstDefault]_vars

\* of two default entries the first has run on an empty argument list
C22_Witness ==
    /\ executed.called
    /\ executed.args = <<>>
    /\ Defaults = {1, 2}
    /\ handled = << [entry |-> 1, args |-> <<>>] >>
    /\ invoked = << [entry |-> 1, args |-> <<>>] >>

(***************************************************************************)
(* Properties of the registry LoadFileAndParseCommandLine makes            *)
(***************************************************************************)

\* the step is one of a LoadFileAndParseCommandLine call after its first
\* binding
AfterFirstBinding == pc \in {"load", "bind2", "parse"}

\* C23: the registry LoadFileAndParseCommandLine makes for its second
\* binding is never the primary registry; the second binding and the
\* parse of the command line, like the load, leave the primary registry
\* as it is, identity and options; so a call adds options to the primary
\* registry in its first binding only, and outside such a call only
\* StructVar adds any
C23_TempRegistry ==
    [][/\ tempFlags' # NoFlags => tempFlags'.id # flags'.id
       /\ AfterFirstBinding => flags' = flags
       /\ pc = "bind2" =>
             /\ tempFlags'.id = newFlagsCalls'
             /\ newFlagsCalls' = newFlagsCalls + 1
       /\ flags'.opts # flags.opts =>
             \/ pc = "bind1"
             \/ pc = "idle" /\ callee' = "StructVar"]_vars

\* a call has returned after parsing a flag with its own registry, the
\* second NewFlags has made, while the primary registry is the first
C23_Witness ==
    /\ pc = "idle"
    /\ callee = "LoadFileAndParseCommandLine"
    /\ steps = StepOrder
    /\ flags.id = 1
    /\ tempFlags.id = 2
    /\ flags.opts # <<>>
    /\ Len(tempFlags.opts) = Len(flags.opts)
    /\ osArgs.list # <<>>
    /\ osArgs.list[1].t = "long"
    /\ result.err = NoErr

=============================================================================
